---- MODULE Spec2Model ----
(***************************************************************************)
(* ClothingAnalysisService (src/services/clothingAnalysis.ts and the       *)
(* earlier version kept in src/utils/bodyShapeCalculator.ts) and the       *)
(* OutfitAnalyzer component that drives it.                                *)
(*                                                                         *)
(* An image is modelled by what the pixel passes measure on it: whether it *)
(* decodes, the five signals of the content validator, and the texture,    *)
(* colour, edge and region statistics the feature extraction reads.        *)
(* Fractions are kept as integers: edge densities in thousandths.          *)
(***************************************************************************)
EXTENDS Integers, Sequences, FiniteSets, TLC

VARIABLES
    variant,          \* which version of the service is installed
    isInitialized,    \* ClothingAnalysisService.isInitialized
    pc,               \* position of the analyzeClothing call in flight
    imageFile,        \* the File argument of that call
    url,              \* object URLs created by loadImage and not yet revoked
    loadAttempts,     \* loadImage invocations of the call
    validationResult, \* what validateClothingContent returned in the call
    valPath,          \* how validateClothingContent came to its result
    anaPath,          \* how performAdvancedAnalysis came to its result
    returned,         \* the DetectedFeatures the call resolved with
    thrown,           \* the Error the call rejected with
    previous,         \* outcome of the preceding call when it had the same File
    selectedImage,    \* OutfitAnalyzer state
    isAnalyzing,
    analysisResult,
    toast,            \* the notification shown last
    lastNote,         \* per outcome of analyzeOutfit, the notification it showed last
    imageClassifier,  \* the pipeline of the model-backed version
    rgb,              \* argument of getAdvancedColorName
    colorName,        \* what it returned
    imageData,        \* the pixel buffer a measurement pass runs on
    pass,             \* the pass that ran on it last
    reads,            \* the buffer indexes that pass read
    regionStats,      \* what analyzeImageRegions returned for it
    edgeMap,          \* argument of findContours
    visited,          \* findContours: the pixels a trace has taken
    scan,             \* findContours: where its raster scan stands
    stack,            \* traceContour: the pixels still to look at
    contour,          \* traceContour: the contour being traced
    contours,         \* findContours: the contours kept so far
    garmentArgs,      \* arguments of detectGarmentType (advanced version)
    garmentResult,    \* what it returned
    callArgs,         \* arguments of a helper function called on its own
    callResult,       \* what it returned
    callers,          \* overlapping analyzeClothing calls: where each stands
    constructed       \* the pipelines that initialize has stored, in order

svcVars == <<variant, isInitialized, pc, imageFile, url, loadAttempts,
             validationResult, valPath, anaPath, returned, thrown>>
uiVars == <<selectedImage, isAnalyzing, analysisResult, toast, lastNote>>
mlVars == <<imageClassifier>>
colorVars == <<rgb, colorName>>
passVars == <<imageData, pass, reads, regionStats>>
contourVars == <<edgeMap, visited, scan, stack, contour, contours>>
garmentVars == <<garmentArgs, garmentResult>>
callVars == <<callArgs, callResult>>
overlapVars == <<callers, constructed>>
restVars == <<mlVars, colorVars, passVars, contourVars, garmentVars,
              callVars, overlapVars>>
vars == <<svcVars, previous, uiVars, restVars>>

None == [none |-> TRUE]

Min(a, b) == IF a < b THEN a ELSE b

\* Math.round(num / den) for num >= 0, den > 0
Round(num, den) == (2 * num + den) \div (2 * den)

(***************************************************************************)
(* Bounds of the model.                                                    *)
(***************************************************************************)
MaxColors == 4

(***************************************************************************)
(* Images.                                                                 *)
(***************************************************************************)
NumRegions == 8

Palette == <<"navy", "white", "red", "gray", "tan", "black", "pink", "brown">>

\* performAdvancedColorAnalysis: colours sorted by descending percentage
ColorList(n, top) ==
    [i \in 1..n |-> [name |-> Palette[i],
                     percentage |-> IF i = 1 THEN top ELSE 10]]

TopPercentages == {25, 40}
ColorLists == {ColorList(n, top) : n \in 0..MaxColors, top \in TopPercentages}

\* analyzeTexture: summed pattern complexity
TextureLevels == {0, 400, 401, 801, 1001}
\* detectEdgesAndContours: mean strength of strong edges, number of contours
StrengthLevels == {0, 70}
ContourLevels == {2, 8, 9}

\* analyzeImageRegions: where each of the eight regions starts, in hundredths
\* of the image height and width (top, upper_middle, middle, lower_middle, bottom,
\* left_side, right_side, center)
RegionY == <<0, 25, 40, 60, 70, 0, 0, 0>>
RegionX == <<0, 0, 0, 0, 0, 0, 80, 30>>

\* analyzeDetailedRegion: the statistics of one region; edgeDensity and
\* contours in thousandths
Calm == [averageBrightness |-> 128, edgeDensity |-> 0, contours |-> 0,
         colorVariance |-> 0, dominantColors |-> 1, textureComplexity |-> 0]
BusyRegions ==
    {[averageBrightness |-> 90, edgeDensity |-> 0, contours |-> 0,
      colorVariance |-> 480, dominantColors |-> 2, textureComplexity |-> 48],
     [averageBrightness |-> 190, edgeDensity |-> 130, contours |-> 40,
      colorVariance |-> 0, dominantColors |-> 3, textureComplexity |-> 96],
     [averageBrightness |-> 160, edgeDensity |-> 160, contours |-> 160,
      colorVariance |-> 800, dominantColors |-> 4, textureComplexity |-> 96]}
RegionSets == {{}, {1}, {5}, {6}, 1..NumRegions}
RegionVectors ==
    {[i \in 1..NumRegions |-> IF i \in S THEN busy ELSE Calm] :
        S \in RegionSets, busy \in BusyRegions}

\* canvas sizes after scaling to at most 800 pixels
Sizes == {[width |-> 533, height |-> 800], [width |-> 800, height |-> 533]}

\* what the five validator passes find
Signals == [isFabric : BOOLEAN, hasGarmentShapes : BOOLEAN,
            hasClothingColors : BOOLEAN, hasDefinedSubject : BOOLEAN,
            hasArchitecture : BOOLEAN]
NoSignals == [isFabric |-> FALSE, hasGarmentShapes |-> FALSE,
              hasClothingColors |-> FALSE, hasDefinedSubject |-> FALSE,
              hasArchitecture |-> FALSE]

Undecodable == [decodes |-> FALSE]

Decoded(sig, size, tex, cols, str, cnt, regs) ==
    [decodes |-> TRUE, signals |-> sig,
     width |-> size.width, height |-> size.height,
     texture |-> tex, colors |-> cols,
     edges |-> [strength |-> str, contourCount |-> cnt],
     regions |-> regs]

PlainSize == [width |-> 800, height |-> 533]
PlainRegions == [i \in 1..NumRegions |-> Calm]

\* Images whose first three signals all pass
ClothingSignals ==
    {s \in Signals : s.isFabric /\ s.hasGarmentShapes /\ s.hasClothingColors}

\* The validator-gated version: plain images with any signals, and
\* clothing-like images with any measurements.
ValidatorImages ==
    {Undecodable}
    \cup {Decoded(sig, PlainSize, 0, ColorList(1, 40), 0, 2, PlainRegions) :
            sig \in Signals}
    \cup {Decoded(sig, size, tex, ColorList(n, 40), str, cnt, regs) :
            sig \in ClothingSignals, size \in Sizes, tex \in TextureLevels,
            n \in 0..MaxColors, str \in StrengthLevels, cnt \in ContourLevels,
            regs \in RegionVectors}

\* The advanced version has no validator.
AdvancedImages ==
    {Undecodable}
    \cup {Decoded(NoSignals, size, tex, cols, str, cnt, regs) :
            size \in Sizes, tex \in TextureLevels, cols \in ColorLists,
            str \in StrengthLevels, cnt \in {2, 11}, regs \in RegionVectors}

ImagesFor(v) == IF v = "validator" THEN ValidatorImages ELSE AdvancedImages

(***************************************************************************)
(* The content validator of the validator-gated version.                   *)
(***************************************************************************)
maxScore == 100

SuggestionLow ==
    "This image doesn't contain clothing. Please upload a photo of garments, outfits, or someone wearing clothes."
SuggestionMid ==
    "Image may contain clothing but is unclear. Try uploading a clearer, well-lit photo focused on the clothing items."
SuggestionHigh ==
    "Clothing detection is uncertain. Ensure the image clearly shows clothing items or outfits without too much background."
SuggestionNoContext == "Try uploading a different image"
SuggestionFailed ==
    "Please try uploading a clear image of clothing or an outfit"
SuggestionDefault ==
    "Please upload an image showing clothing items, outfits, or fashion."

\* naturalPatterns and metallicSurfaces are never incremented
detectNonClothingPatterns(sig) ==
    [hasArchitecture |-> sig.hasArchitecture,
     hasNature |-> 0 > 20,
     hasVehicles |-> 0 > 15]

\* the score summed over the five checks
ValidationScoreSwapped(sig) ==
    LET anti == detectNonClothingPatterns(sig)
    IN  (IF sig.isFabric THEN 25 ELSE 0)
        + (IF sig.hasGarmentShapes THEN 30 ELSE 0)
        + (IF sig.hasClothingColors THEN 20 ELSE 0)
        + (IF sig.hasDefinedSubject THEN 15 ELSE 0)
        + (IF ~anti.hasArchitecture /\ ~anti.hasNature /\ ~anti.hasVehicles
           THEN 10 ELSE 0)

ValidationScore(sig) ==
    LET anti == detectNonClothingPatterns(sig)
    IN  (IF sig.isFabric THEN 30 ELSE 0)
        + (IF sig.hasGarmentShapes THEN 25 ELSE 0)
        + (IF sig.hasClothingColors THEN 20 ELSE 0)
        + (IF sig.hasDefinedSubject THEN 15 ELSE 0)
        + (IF ~anti.hasArchitecture /\ ~anti.hasNature /\ ~anti.hasVehicles
           THEN 10 ELSE 0)

\* the suggestion of a validation that scored `confidence`
SuggestionForInclusive(isClothing, confidence) ==
    IF ~isClothing
    THEN IF confidence <= 40 THEN SuggestionLow
         ELSE IF confidence <= 60 THEN SuggestionMid
         ELSE SuggestionHigh
    ELSE ""

SuggestionFor(isClothing, confidence) ==
    IF ~isClothing
    THEN IF confidence < 40 THEN SuggestionLow
         ELSE IF confidence < 60 THEN SuggestionMid
         ELSE SuggestionHigh
    ELSE ""

\* The reasons list is display text that nothing reads; it is left out.
performComprehensiveClothingValidationLenient(sig) ==
    LET score == ValidationScore(sig)
        confidence == Round(score * 100, maxScore)
        isClothing == confidence >= 70
    IN  [isClothing |-> isClothing,
         confidence |-> confidence,
         suggestion |-> SuggestionFor(isClothing, confidence)]

\* The reasons list is display text that nothing reads; it is left out.
performComprehensiveClothingValidation(sig) ==
    LET score == ValidationScore(sig)
        confidence == Round(score * 100, maxScore)
        isClothing == confidence >= 75
    IN  [isClothing |-> isClothing,
         confidence |-> confidence,
         suggestion |-> SuggestionFor(isClothing, confidence)]

\* env: what the browser does in the call: "ok", no 2D context ("noctx"),
\* or an exception while drawing or reading the canvas ("throws")
CanvasOutcomes == {"ok", "noctx", "throws"}

validateClothingContent(env, image) ==
    IF env = "noctx"
    THEN [isClothing |-> FALSE, confidence |-> 0,
          suggestion |-> SuggestionNoContext]
    ELSE IF env = "throws"
    THEN [isClothing |-> FALSE, confidence |-> 0,
          suggestion |-> SuggestionFailed]
    ELSE performComprehensiveClothingValidation(image.signals)

ValidationPath(env) ==
    IF env = "ok" THEN "scored" ELSE env

\* analyzeClothing after validateClothingContent: throw or go on
NoGate(v) ==
    [pc |-> "analyzing", thrown |-> None]

ValidationGate(v) ==
    IF ~v.isClothing
    THEN [pc |-> "rejected",
          thrown |-> [message |-> "Not a clothing image. "
                        \o (IF v.suggestion # "" THEN v.suggestion
                            ELSE SuggestionDefault)]]
    ELSE [pc |-> "analyzing", thrown |-> None]

(***************************************************************************)
(* The measurement passes, the same in both versions.                      *)
(***************************************************************************)
SumOver(regions, field) ==
    LET F[i \in 0..NumRegions] ==
            IF i = 0 THEN 0 ELSE F[i - 1] + regions[i][field]
    IN  F[NumRegions]

\* regions.find: the first of the regions in S, 0 when there is none
FindRegion(S) ==
    IF S # {} THEN CHOOSE i \in S : \A j \in S : i <= j ELSE 0

\* uniformity is kept times 20: 100 - min(complexity / 20, 100)
analyzeTexture(image) ==
    [complexity |-> image.texture,
     patterns |-> (IF image.texture > 1000 THEN {"textured"} ELSE {})
                  \cup (IF image.texture < 200 THEN {"smooth"} ELSE {}),
     uniformity20 |-> 2000 - Min(image.texture, 2000)]

\* colors.slice(0, 3).map(c => c.name)
ColorNames(colors) ==
    [i \in 1..Min(Len(colors), 3) |-> colors[i].name]

(***************************************************************************)
(* Feature extraction of the validator-gated version.                      *)
(***************************************************************************)
analyzeSilhouette(edges) ==
    IF edges.contourCount < 3 THEN [type |-> "fitted", confidence |-> 70]
    ELSE IF edges.contourCount > 8
    THEN [type |-> "flowing", confidence |-> 65]
    ELSE [type |-> "structured", confidence |-> 60]

detectGarmentType(regions, width, height) ==
    LET top == FindRegion({i \in 1..NumRegions : RegionY[i] < 40})
        bottom == FindRegion({i \in 1..NumRegions : RegionY[i] > 60})
        topComplexity ==
            IF top # 0 THEN regions[top].textureComplexity ELSE 0
        bottomComplexity ==
            IF bottom # 0 THEN regions[bottom].textureComplexity ELSE 0
    IN  IF topComplexity > 30 /\ bottomComplexity > 30 THEN "full_outfit"
        ELSE IF topComplexity > bottomComplexity + 10 THEN "top"
        ELSE IF bottomComplexity > topComplexity + 10 THEN "bottom"
        ELSE IF 10 * height > 13 * width THEN "dress"
        ELSE "top"

extractClothingFeatures(regions, garmentType, texture, silhouette) ==
    LET topRegion == regions[1]
        sideComplexity2 ==
            regions[6].textureComplexity + regions[7].textureComplexity
        bottomRegion == regions[5]
        lower == garmentType \in {"bottom", "full_outfit"}
    IN  [neckline |->
            IF topRegion.edgeDensity > 100 /\ topRegion.contours > 50
            THEN "v-neck"
            ELSE IF topRegion.edgeDensity > 100
                    /\ topRegion.averageBrightness > 150
            THEN "scoop neck"
            ELSE "crew neck",
         sleeves |->
            IF sideComplexity2 > 80 THEN "long sleeves"
            ELSE IF sideComplexity2 > 40 THEN "3/4 sleeves"
            ELSE "short sleeves",
         top_style |->
            IF "textured" \in texture.patterns THEN "sweater"
            ELSE IF silhouette.type = "fitted" THEN "fitted top"
            ELSE IF silhouette.type = "flowing" THEN "blouse"
            ELSE "casual top",
         bottom_style |->
            IF ~lower THEN "not applicable"
            ELSE IF bottomRegion.textureComplexity > 30 THEN "jeans"
            ELSE "trousers",
         dress_style |->
            IF garmentType # "dress" THEN "not applicable"
            ELSE IF silhouette.type = "fitted" THEN "bodycon"
            ELSE IF silhouette.type = "flowing" THEN "a-line"
            ELSE "shift",
         rise |->
            IF ~lower THEN "not applicable"
            ELSE IF bottomRegion.textureComplexity > 30
            THEN (IF RegionY[5] < RegionY[4] THEN "high-rise"
                  ELSE "mid-rise")
            ELSE "mid-rise",
         fit |->
            IF silhouette.type = "fitted" THEN "fitted"
            ELSE IF silhouette.type = "flowing" THEN "loose"
            ELSE "regular"]

\* sums are kept times 40: avgRegionComplexity = sum / 8, edgeQuality =
\* strength / 10
calculateConfidence(regions, edges, colors) ==
    LET sumComplexity == SumOver(regions, "textureComplexity")
        edgeQuality40 == 4 * Min(edges.strength, 100)
        colorQuality == Min(Len(colors) * 10, 30)
        base40 == 5 * sumComplexity + edgeQuality40 + 40 * colorQuality
        boost1 == IF 5 * sumComplexity > 40 * 40 /\ edges.strength > 50
                  THEN 10 ELSE 0
        boost2 == IF Len(colors) >= 2 /\ 5 * sumComplexity > 30 * 40
                  THEN 5 ELSE 0
    IN  Min(Round(base40 + 40 * (boost1 + boost2), 40), 95)

detectPatternUnclear(texture, colors) ==
    IF "textured" \in texture.patterns
    THEN (IF Len(colors) > 3 THEN "multicolored" ELSE "textured")
    ELSE IF Len(colors) = 1 THEN "solid"
    ELSE IF Len(colors) = 2 THEN "two-tone"
    ELSE "unclear"

detectPattern(texture, colors) ==
    IF "textured" \in texture.patterns
    THEN (IF Len(colors) > 3 THEN "multicolored" ELSE "textured")
    ELSE IF Len(colors) = 1 THEN "solid"
    ELSE IF Len(colors) = 2 THEN "two-tone"
    ELSE "varied"

classifyFabricTexture(texture) ==
    IF texture.complexity > 800 THEN "textured/knit"
    ELSE IF texture.complexity > 400 THEN "woven"
    ELSE IF texture.uniformity20 > 80 * 20 THEN "smooth"
    ELSE "mixed"

generateIntelligentFallback ==
    [neckline |-> "crew neck",
     sleeves |-> "short sleeves",
     top_style |-> "casual top",
     bottom_style |-> "not applicable",
     dress_style |-> "not applicable",
     rise |-> "not applicable",
     fit |-> "regular",
     colors |-> <<"neutral">>,
     confidence |-> 45,
     analysis_details |->
        [garment_type |-> "top",
         pattern_detected |-> "unclear",
         fabric_texture |-> "unknown",
         silhouette |-> "regular"]]

\* the record performAdvancedAnalysis builds when nothing throws
AnalysisRecord(image) ==
    LET regions == image.regions
        garmentType == detectGarmentType(regions, image.width, image.height)
        colors == image.colors
        edges == image.edges
        texture == analyzeTexture(image)
        silhouette == analyzeSilhouette(edges)
        features ==
            extractClothingFeatures(regions, garmentType, texture, silhouette)
    IN  [neckline |-> features.neckline,
         sleeves |-> features.sleeves,
         top_style |-> features.top_style,
         bottom_style |-> features.bottom_style,
         dress_style |-> features.dress_style,
         rise |-> features.rise,
         fit |-> features.fit,
         colors |-> ColorNames(colors),
         confidence |-> calculateConfidence(regions, edges, colors),
         analysis_details |->
            [garment_type |-> garmentType,
             pattern_detected |-> detectPattern(texture, colors),
             fabric_texture |-> classifyFabricTexture(texture),
             silhouette |-> silhouette.type]]

\* performAdvancedAnalysis: env "ok" analyses, anything else is caught
performAdvancedAnalysis(env, image) ==
    IF env = "ok" THEN {AnalysisRecord(image)}
    ELSE {generateIntelligentFallback}

(***************************************************************************)
(* Feature extraction of the advanced version (no validator).              *)
(***************************************************************************)
analyzeSilhouetteAdv(image, edges) ==
    [type |->
        IF 10 * image.width > 12 * image.height THEN "wide"
        ELSE IF 10 * image.width < 6 * image.height THEN "elongated"
        ELSE "fitted",
     characteristics |->
        (IF 10 * image.width > 12 * image.height
         THEN {"horizontal emphasis"}
         ELSE IF 10 * image.width < 6 * image.height
         THEN {"vertical emphasis"}
         ELSE {})
        \cup (IF edges.strength > 60 THEN {"structured"} ELSE {"flowing"})
        \cup (IF edges.contourCount > 10 THEN {"complex shape"}
              ELSE {"simple shape"})]

\* composite scores are kept times 10: textureComplexity + edgeDensity * 100
detectGarmentTypeAdvInclusive(regions, width, height) ==
    LET top == FindRegion({i \in 1..NumRegions : RegionX[i] = 0 /\ RegionY[i] = 0})
        bottom == FindRegion({i \in 1..NumRegions : RegionY[i] > 60})
        topComplexity ==
            10 * regions[top].textureComplexity + regions[top].edgeDensity
        bottomComplexity ==
            10 * regions[bottom].textureComplexity
            + regions[bottom].edgeDensity
        diff == IF topComplexity >= bottomComplexity
                THEN topComplexity - bottomComplexity
                ELSE bottomComplexity - topComplexity
    IN  IF top = 0 \/ bottom = 0 THEN "top"
        ELSE IF 10 * width <= 7 * height
        THEN (IF diff < 200 THEN "dress" ELSE "full_outfit")
        ELSE IF 10 * width >= 13 * height
        THEN (IF topComplexity > bottomComplexity THEN "top" ELSE "bottom")
        ELSE IF 2 * bottomComplexity > 3 * topComplexity THEN "bottom"
        ELSE "top"

\* composite scores are kept times 10: textureComplexity + edgeDensity * 100
detectGarmentTypeAdv(regions, width, height) ==
    LET top == FindRegion({i \in 1..NumRegions : RegionX[i] = 0 /\ RegionY[i] = 0})
        bottom == FindRegion({i \in 1..NumRegions : RegionY[i] > 60})
        topComplexity ==
            10 * regions[top].textureComplexity + regions[top].edgeDensity
        bottomComplexity ==
            10 * regions[bottom].textureComplexity
            + regions[bottom].edgeDensity
        diff == IF topComplexity >= bottomComplexity
                THEN topComplexity - bottomComplexity
                ELSE bottomComplexity - topComplexity
    IN  IF top = 0 \/ bottom = 0 THEN "top"
        ELSE IF 10 * width < 7 * height
        THEN (IF diff < 200 THEN "dress" ELSE "full_outfit")
        ELSE IF 10 * width > 13 * height
        THEN (IF topComplexity > bottomComplexity THEN "top" ELSE "bottom")
        ELSE IF 2 * bottomComplexity > 3 * topComplexity THEN "bottom"
        ELSE "top"

detectPatternAdv(texture, colors) ==
    IF texture.complexity > 800
    THEN (IF Len(colors) > 4 THEN "multicolored pattern" ELSE "textured")
    ELSE IF Len(colors) > 3
    THEN (IF colors[1].percentage < 60 THEN "mixed colors"
          ELSE "color blocked")
    ELSE IF texture.uniformity20 > 80 * 20 THEN "solid"
    ELSE "subtle pattern"

classifyFabricTextureAdv(texture) ==
    IF texture.complexity > 1000 THEN "textured/knit"
    ELSE IF texture.complexity > 500 THEN "woven"
    ELSE IF texture.uniformity20 > 85 * 20 THEN "smooth"
    ELSE "medium texture"

detectAdvancedNecklineInclusive(topRegion, edges, garmentType) ==
    IF garmentType = "bottom" THEN "not applicable"
    ELSE IF topRegion.contours > 150 THEN "v-neck"
    ELSE IF topRegion.edgeDensity > 120 /\ topRegion.averageBrightness > 150
    THEN "scoop neck"
    ELSE IF topRegion.edgeDensity <= 50 THEN "strapless"
    ELSE IF topRegion.dominantColors > 2 /\ topRegion.averageBrightness > 180
    THEN "boat neck"
    ELSE IF topRegion.edgeDensity > 80 /\ topRegion.contours > 80
    THEN "square neck"
    ELSE "crew neck"

detectAdvancedNeckline(topRegion, edges, garmentType) ==
    IF garmentType = "bottom" THEN "not applicable"
    ELSE IF topRegion.contours > 150 THEN "v-neck"
    ELSE IF topRegion.edgeDensity > 120 /\ topRegion.averageBrightness > 150
    THEN "scoop neck"
    ELSE IF topRegion.edgeDensity < 50 THEN "strapless"
    ELSE IF topRegion.dominantColors > 2 /\ topRegion.averageBrightness > 180
    THEN "boat neck"
    ELSE IF topRegion.edgeDensity > 80 /\ topRegion.contours > 80
    THEN "square neck"
    ELSE "crew neck"

\* side sums are kept times 2
detectAdvancedSleeves(regions, garmentType) ==
    LET sideComplexity2 ==
            regions[6].textureComplexity + regions[7].textureComplexity
        sideEdges2 == regions[6].edgeDensity + regions[7].edgeDensity
    IN  IF garmentType = "bottom" THEN "not applicable"
        ELSE IF sideComplexity2 < 20 /\ sideEdges2 < 40 THEN "sleeveless"
        ELSE IF sideComplexity2 > 60 /\ regions[2].edgeDensity > 80
        THEN "long sleeves"
        ELSE IF sideComplexity2 > 40 /\ sideEdges2 > 100 THEN "3/4 sleeves"
        ELSE IF sideEdges2 > 60 THEN "short sleeves"
        ELSE "cap sleeves"

detectAdvancedTopStyle(topRegion, middleRegion, texture, silhouette) ==
    IF "flowing" \in silhouette.characteristics
    THEN (IF topRegion.averageBrightness > 180 THEN "blouse" ELSE "tunic")
    ELSE IF texture.complexity > 600 THEN "sweater"
    ELSE IF middleRegion.edgeDensity > 100
            /\ "structured" \in silhouette.characteristics
    THEN "fitted"
    ELSE IF topRegion.averageBrightness < 100 THEN "tank top"
    ELSE IF topRegion.colorVariance > 500 THEN "patterned top"
    ELSE "t-shirt"

detectAdvancedBottomStyle(bottomRegion, silhouette, garmentType) ==
    IF garmentType = "top" THEN "not applicable"
    ELSE IF garmentType = "dress" THEN "not applicable"
    ELSE IF silhouette.type = "wide" THEN "wide-leg"
    ELSE IF bottomRegion.edgeDensity > 120 THEN "skinny"
    ELSE IF bottomRegion.textureComplexity > 40 THEN "textured pants"
    ELSE IF "flowing" \in silhouette.characteristics THEN "relaxed"
    ELSE "straight-leg"

detectAdvancedDressStyle(regions, silhouette, garmentType) ==
    IF garmentType # "dress" THEN "not applicable"
    ELSE IF silhouette.type = "elongated" THEN "maxi"
    ELSE IF 2 * regions[1].edgeDensity > 3 * regions[5].edgeDensity
    THEN "fit-and-flare"
    ELSE IF "structured" \in silhouette.characteristics THEN "sheath"
    ELSE "a-line"

detectAdvancedRise(middleRegion, bottomRegion, garmentType) ==
    LET brightnessDiff ==
            middleRegion.averageBrightness - bottomRegion.averageBrightness
        edgeDensityDiff == middleRegion.edgeDensity - bottomRegion.edgeDensity
    IN  IF garmentType = "top" THEN "not applicable"
        ELSE IF garmentType = "dress" THEN "not applicable"
        ELSE IF brightnessDiff > 30 /\ edgeDensityDiff > 20
        THEN "high-waisted"
        ELSE IF brightnessDiff < -20 THEN "low-rise"
        ELSE "mid-rise"

\* averages over the regions are compared as sums
detectAdvancedFit(regions, silhouette, edges) ==
    LET sumEdgeDensity == SumOver(regions, "edgeDensity")
        sumTextureComplexity == SumOver(regions, "textureComplexity")
    IN  IF "structured" \in silhouette.characteristics
           /\ sumEdgeDensity > 100 * NumRegions
        THEN "fitted"
        ELSE IF "flowing" \in silhouette.characteristics THEN "loose"
        ELSE IF sumTextureComplexity > 40 * NumRegions THEN "relaxed"
        ELSE IF edges.strength > 70 THEN "tailored"
        ELSE "regular"

\* hands detectAdvancedRise a fixed garment type
extractClothingFeaturesAdvAnyRise(regions, garmentType, edges, texture, silhouette) ==
    LET topRegion == regions[1]
        middleRegion == regions[3]
        bottomRegion == regions[5]
    IN  [neckline |-> detectAdvancedNeckline(topRegion, edges, garmentType),
         sleeves |-> detectAdvancedSleeves(regions, garmentType),
         top_style |->
            detectAdvancedTopStyle(topRegion, middleRegion, texture,
                                   silhouette),
         bottom_style |->
            detectAdvancedBottomStyle(bottomRegion, silhouette, garmentType),
         dress_style |->
            detectAdvancedDressStyle(regions, silhouette, garmentType),
         rise |-> detectAdvancedRise(middleRegion, bottomRegion, "bottom"),
         fit |-> detectAdvancedFit(regions, silhouette, edges)]

extractClothingFeaturesAdv(regions, garmentType, edges, texture, silhouette) ==
    LET topRegion == regions[1]
        middleRegion == regions[3]
        bottomRegion == regions[5]
    IN  [neckline |-> detectAdvancedNeckline(topRegion, edges, garmentType),
         sleeves |-> detectAdvancedSleeves(regions, garmentType),
         top_style |->
            detectAdvancedTopStyle(topRegion, middleRegion, texture,
                                   silhouette),
         bottom_style |->
            detectAdvancedBottomStyle(bottomRegion, silhouette, garmentType),
         dress_style |->
            detectAdvancedDressStyle(regions, silhouette, garmentType),
         rise |-> detectAdvancedRise(middleRegion, bottomRegion, garmentType),
         fit |-> detectAdvancedFit(regions, silhouette, edges)]

BaseConfidence == 60

calculateConfidenceAdvUncapped(regions, edges, colors) ==
    BaseConfidence
    + (IF edges.strength > 50 THEN 15 ELSE 0)
    + (IF Len(colors) >= 2 /\ colors[1].percentage > 30 THEN 10 ELSE 0)
    + (IF \E i \in 1..NumRegions : regions[i].textureComplexity > 20
       THEN 10 ELSE 0)
    + (IF \E i \in 1..NumRegions : regions[i].edgeDensity > 80
       THEN 5 ELSE 0)

calculateConfidenceAdv(regions, edges, colors) ==
    LET confidence ==
            BaseConfidence
            + (IF edges.strength > 50 THEN 15 ELSE 0)
            + (IF Len(colors) >= 2 /\ colors[1].percentage > 30
               THEN 10 ELSE 0)
            + (IF \E i \in 1..NumRegions : regions[i].textureComplexity > 20
               THEN 10 ELSE 0)
            + (IF \E i \in 1..NumRegions : regions[i].edgeDensity > 80
               THEN 5 ELSE 0)
    IN  Min(confidence, 95)

\* the two records generateIntelligentFallback draws from with Math.random
fallbacks ==
    <<[neckline |-> "crew neck",
       sleeves |-> "short sleeves",
       top_style |-> "t-shirt",
       bottom_style |-> "straight-leg",
       dress_style |-> "a-line",
       rise |-> "mid-rise",
       colors |-> <<"navy", "white">>,
       fit |-> "regular",
       confidence |-> 70,
       analysis_details |->
          [garment_type |-> "top",
           pattern_detected |-> "solid",
           fabric_texture |-> "smooth",
           silhouette |-> "fitted"]],
      [neckline |-> "v-neck",
       sleeves |-> "sleeveless",
       top_style |-> "blouse",
       bottom_style |-> "skinny",
       dress_style |-> "bodycon",
       rise |-> "high-waisted",
       colors |-> <<"black", "white">>,
       fit |-> "fitted",
       confidence |-> 68,
       analysis_details |->
          [garment_type |-> "full_outfit",
           pattern_detected |-> "solid",
           fabric_texture |-> "woven",
           silhouette |-> "structured"]]>>

\* every record Math.floor(Math.random() * fallbacks.length) can select
generateIntelligentFallbackAdv ==
    {fallbacks[i] : i \in 1..Len(fallbacks)}

AnalysisRecordAdv(image) ==
    LET regions == image.regions
        garmentType ==
            detectGarmentTypeAdv(regions, image.width, image.height)
        colors == image.colors
        edges == image.edges
        texture == analyzeTexture(image)
        silhouette == analyzeSilhouetteAdv(image, edges)
        features ==
            extractClothingFeaturesAdv(regions, garmentType, edges, texture,
                                       silhouette)
    IN  [neckline |-> features.neckline,
         sleeves |-> features.sleeves,
         top_style |-> features.top_style,
         bottom_style |-> features.bottom_style,
         dress_style |-> features.dress_style,
         rise |-> features.rise,
         fit |-> features.fit,
         colors |-> ColorNames(colors),
         confidence |-> calculateConfidenceAdv(regions, edges, colors),
         analysis_details |->
            [garment_type |-> garmentType,
             pattern_detected |-> detectPatternAdv(texture, colors),
             fabric_texture |-> classifyFabricTextureAdv(texture),
             silhouette |-> silhouette.type]]

performAdvancedAnalysisAdvRandom(env, image) ==
    {AnalysisRecordAdv(image)} \cup generateIntelligentFallbackAdv

performAdvancedAnalysisAdv(env, image) ==
    IF env = "ok" THEN {AnalysisRecordAdv(image)}
    ELSE generateIntelligentFallbackAdv

(***************************************************************************)
(* analyzeClothing, step by step.                                          *)
(*   pc: "idle" no call; "called" entered; "ready" initialized;            *)
(*       "loading" the image element is loading; "validating";             *)
(*       "analyzing"; "done" resolved with a record; "rejected" threw the  *)
(*       not-clothing error; "failed" threw another error.                 *)
(***************************************************************************)
LoadErrorMessage == "Failed to load image"

Ended == {"done", "rejected", "failed"}

\* initialize(): sets the flag unless it is set
initializeSkipped(flag) == flag

initialize(flag) == IF flag THEN flag ELSE TRUE

\* the catch block of analyzeClothing: what the call settles with when
\* `error` was thrown inside its try block
analyzeClothingCatchGuess(v, error) ==
    IF v = "validator"
    THEN {[returned |-> generateIntelligentFallback, thrown |-> None]}
    ELSE {[returned |-> r, thrown |-> None] :
            r \in generateIntelligentFallbackAdv}

analyzeClothingCatch(v, error) ==
    IF v = "validator"
    THEN {[returned |-> None, thrown |-> error]}
    ELSE {[returned |-> r, thrown |-> None] :
            r \in generateIntelligentFallbackAdv}

\* where the call goes once the image has loaded
AfterLoad(v) == IF v = "validator" THEN "validating" ELSE "analyzing"

CallLocalsReset ==
    /\ imageFile' = None
    /\ url' = 0
    /\ loadAttempts' = 0
    /\ validationResult' = None
    /\ valPath' = "none"
    /\ anaPath' = "none"
    /\ returned' = None
    /\ thrown' = None

\* analyzeClothing(image) is entered
Enter(image) ==
    /\ pc' = "called"
    /\ imageFile' = image
    /\ url' = 0
    /\ loadAttempts' = 0
    /\ validationResult' = None
    /\ valPath' = "none"
    /\ anaPath' = "none"
    /\ returned' = None
    /\ thrown' = None
    /\ UNCHANGED <<variant, isInitialized>>

\* if (!this.isInitialized) await this.initialize()
Initialize ==
    /\ pc = "called"
    /\ isInitialized' = initialize(isInitialized)
    /\ pc' = "ready"
    /\ UNCHANGED <<variant, imageFile, url, loadAttempts, validationResult,
                   valPath, anaPath, returned, thrown, previous, uiVars, restVars>>

\* loadImage: createObjectURL, img.src = url
LoadImage ==
    /\ pc = "ready"
    /\ url' = url + 1
    /\ loadAttempts' = loadAttempts + 1
    /\ pc' = "loading"
    /\ UNCHANGED <<variant, isInitialized, imageFile, validationResult,
                   valPath, anaPath, returned, thrown, previous, uiVars, restVars>>

\* img.onload: revoke the URL, resolve
ImageOnLoad ==
    /\ pc = "loading"
    /\ imageFile.decodes
    /\ url' = url - 1
    /\ pc' = AfterLoad(variant)
    /\ UNCHANGED <<variant, isInitialized, imageFile, loadAttempts,
                   validationResult, valPath, anaPath, returned, thrown,
                   previous, uiVars, restVars>>

\* img.onerror: revoke the URL, reject; the catch block of analyzeClothing
ImageOnError ==
    /\ pc = "loading"
    /\ ~imageFile.decodes
    /\ url' = url - 1
    /\ \E out \in analyzeClothingCatch(variant,
                                       [message |-> LoadErrorMessage]) :
          /\ returned' = out.returned
          /\ thrown' = out.thrown
          /\ pc' = IF out.thrown # None THEN "failed" ELSE "done"
    /\ UNCHANGED <<variant, isInitialized, imageFile, loadAttempts,
                   validationResult, valPath, anaPath, previous, uiVars, restVars>>

\* validateClothingContent and the check of its result
ValidateContent ==
    /\ pc = "validating"
    /\ \E env \in CanvasOutcomes :
          LET v == validateClothingContent(env, imageFile)
              gate == ValidationGate(v)
          IN  /\ validationResult' = v
              /\ valPath' = ValidationPath(env)
              /\ IF gate.thrown # None
                 THEN \E out \in analyzeClothingCatch(variant, gate.thrown) :
                         /\ returned' = out.returned
                         /\ thrown' = out.thrown
                         /\ pc' = IF out.thrown # None THEN gate.pc
                                  ELSE "done"
                 ELSE /\ pc' = gate.pc
                      /\ UNCHANGED <<returned, thrown>>
    /\ UNCHANGED <<variant, isInitialized, imageFile, url, loadAttempts,
                   anaPath, previous, uiVars, restVars>>

\* performAdvancedAnalysis and the return of its record
PerformAnalysis ==
    /\ pc = "analyzing"
    /\ \E env \in CanvasOutcomes :
          /\ anaPath' = IF env = "ok" THEN "analyzed" ELSE "fallback"
          /\ returned' \in
                IF variant = "validator"
                THEN performAdvancedAnalysis(env, imageFile)
                ELSE performAdvancedAnalysisAdv(env, imageFile)
    /\ pc' = "done"
    /\ UNCHANGED <<variant, isInitialized, imageFile, url, loadAttempts,
                   validationResult, valPath, thrown, previous, uiVars, restVars>>

(***************************************************************************)
(* A caller that awaits analyzeClothing directly, and calls again with the *)
(* same File.                                                              *)
(***************************************************************************)
Variants == {"validator", "advanced"}

Call ==
    /\ pc = "idle"
    /\ previous = None
    /\ \E image \in ImagesFor(variant) : Enter(image)
    /\ UNCHANGED <<previous, uiVars, restVars>>

\* the awaited call settles; the caller keeps what it got
Settle ==
    /\ pc \in Ended
    /\ previous' = [image |-> imageFile, returned |-> returned,
                    thrown |-> thrown, anaPath |-> anaPath]
    /\ pc' = "idle"
    /\ CallLocalsReset
    /\ UNCHANGED <<variant, isInitialized, uiVars, restVars>>

CallAgain ==
    /\ pc = "idle"
    /\ previous # None
    /\ Enter(previous.image)
    /\ UNCHANGED <<previous, uiVars, restVars>>

InitService ==
    /\ isInitialized = FALSE
    /\ pc = "idle"
    /\ imageFile = None
    /\ url = 0
    /\ loadAttempts = 0
    /\ validationResult = None
    /\ valPath = "none"
    /\ anaPath = "none"
    /\ returned = None
    /\ thrown = None
    /\ previous = None

\* how a call of analyzeClothing can end, as the caller may tell it apart
OutcomeKinds == {"success", "degraded", "rejection", "decode failure"}

Outcome ==
    IF pc = "failed" THEN "decode failure"
    ELSE IF pc = "rejected" THEN "rejection"
    ELSE IF anaPath = "analyzed" THEN "success"
    ELSE "degraded"

InitUI ==
    /\ selectedImage = None
    /\ isAnalyzing = FALSE
    /\ analysisResult = None
    /\ toast = None
    /\ lastNote = [o \in OutcomeKinds |-> None]

\* the parts a specification does not exercise stay as they are here
\* findContours is not running
NoScan == [at |-> "none", x |-> 0, y |-> 0]

IdleExcept(part) ==
    /\ IF part = "model" THEN TRUE ELSE imageClassifier = None
    /\ IF part = "color" THEN TRUE ELSE rgb = None /\ colorName = None
    /\ IF part = "passes" THEN TRUE
       ELSE /\ imageData = None /\ pass = "none"
            /\ reads = {} /\ regionStats = None
    /\ IF part = "contour" THEN TRUE
       ELSE /\ edgeMap = None /\ visited = {} /\ scan = NoScan
            /\ stack = <<>> /\ contour = <<>> /\ contours = <<>>
    /\ IF part = "garment" THEN TRUE
       ELSE garmentArgs = None /\ garmentResult = None
    /\ IF part = "call" THEN TRUE
       ELSE callArgs = None /\ callResult = None
    /\ IF part = "overlap" THEN TRUE
       ELSE callers = None /\ constructed = <<>>

Init ==
    /\ variant \in Variants
    /\ InitService
    /\ InitUI
    /\ IdleExcept("none")

Next ==
    \/ Call
    \/ Settle
    \/ CallAgain
    \/ Initialize
    \/ LoadImage
    \/ ImageOnLoad
    \/ ImageOnError
    \/ ValidateContent
    \/ PerformAnalysis

Spec == Init /\ [][Next]_vars

(***************************************************************************)
(* OutfitAnalyzer (validator-gated service).  Event handlers run between   *)
(* tasks: when no call is in flight or while the image element loads.      *)
(***************************************************************************)
UISignals == {s \in Signals : ~s.hasArchitecture /\ ~s.hasDefinedSubject}

UIImages ==
    {Undecodable}
    \cup {Decoded(sig, PlainSize, 0, ColorList(1, 40), 0, 2, PlainRegions) :
            sig \in UISignals}

\* a File: its content, size > 5MB, type starting with image/
UIFiles ==
    {[content |-> i, tooLarge |-> FALSE, isImage |-> TRUE] : i \in UIImages}
    \cup {[content |-> Undecodable, tooLarge |-> TRUE, isImage |-> TRUE],
          [content |-> Undecodable, tooLarge |-> FALSE, isImage |-> FALSE]}

ToastTooLarge ==
    [title |-> "File too large",
     description |-> "Please select an image smaller than 5MB",
     variant |-> "destructive"]
ToastInvalidType ==
    [title |-> "Invalid file type",
     description |-> "Please select an image file",
     variant |-> "destructive"]
ToastAnalyzing ==
    [title |-> "Analyzing outfit...",
     description |-> "Getting professional styling insights",
     variant |-> "default"]
ToastComplete ==
    [title |-> "Analysis complete!",
     description |-> "Here's your professional styling assessment",
     variant |-> "default"]
ToastFailed(error) ==
    [title |-> "Analysis failed",
     description |-> "Error: " \o error.message
                       \o ". Please try again with a clear clothing image.",
     variant |-> "destructive"]

\* the part of the stylist's assessment that shows what was detected
provideStylistAnalysis(detected) == [detectedFeatures |-> detected]

HandleImageUpload ==
    /\ pc \in {"idle", "loading"}
    /\ \E file \in UIFiles :
          IF file.tooLarge
          THEN /\ toast' = ToastTooLarge
               /\ UNCHANGED <<selectedImage, analysisResult>>
          ELSE IF ~file.isImage
          THEN /\ toast' = ToastInvalidType
               /\ UNCHANGED <<selectedImage, analysisResult>>
          ELSE /\ selectedImage' = file
               /\ analysisResult' = None
               /\ UNCHANGED toast
    /\ UNCHANGED <<svcVars, previous, isAnalyzing, lastNote, restVars>>

\* click on the button, shown when an image is selected and enabled when no
\* analysis runs: up to the await of analyzeClothing
AnalyzeOutfit ==
    /\ pc = "idle"
    /\ selectedImage # None
    /\ ~isAnalyzing
    /\ isAnalyzing' = TRUE
    /\ toast' = ToastAnalyzing
    /\ Enter(selectedImage.content)
    /\ UNCHANGED <<previous, selectedImage, analysisResult, lastNote,
                   restVars>>

\* analyzeClothing resolved: the rest of the try block, and finally
AnalyzeOutfitResolved ==
    /\ pc = "done"
    /\ analysisResult' = provideStylistAnalysis(returned)
    /\ toast' = ToastComplete
    /\ isAnalyzing' = FALSE
    /\ lastNote' = [lastNote EXCEPT ![Outcome] = toast']
    /\ pc' = "idle"
    /\ CallLocalsReset
    /\ UNCHANGED <<variant, isInitialized, previous, selectedImage,
                   restVars>>

\* analyzeClothing rejected: the catch block, and finally
AnalyzeOutfitRejected ==
    /\ pc \in {"rejected", "failed"}
    /\ toast' = ToastFailed(thrown)
    /\ isAnalyzing' = FALSE
    /\ lastNote' = [lastNote EXCEPT ![Outcome] = toast']
    /\ pc' = "idle"
    /\ CallLocalsReset
    /\ UNCHANGED <<variant, isInitialized, previous, selectedImage,
                   analysisResult, restVars>>

InitOutfitAnalyzer ==
    /\ variant = "validator"
    /\ InitService
    /\ InitUI
    /\ IdleExcept("none")

NextUI ==
    \/ HandleImageUpload
    \/ AnalyzeOutfit
    \/ AnalyzeOutfitResolved
    \/ AnalyzeOutfitRejected
    \/ Initialize
    \/ LoadImage
    \/ ImageOnLoad
    \/ ImageOnError
    \/ ValidateContent
    \/ PerformAnalysis

SpecUI == InitOutfitAnalyzer /\ [][NextUI]_vars

(***************************************************************************)
(* Properties.                                                             *)
(***************************************************************************)
Validator == variant = "validator"
Advanced == variant = "advanced"

\* C1: in the validator-gated analyzeClothing, once validateClothingContent
\* has returned isClothing = false, performAdvancedAnalysis has not run and
\* does not run in that call, no record is returned, and the call has ended
\* by throwing.
C1_RejectionStopsTheCall ==
    (Validator /\ validationResult # None /\ ~validationResult.isClothing)
        => /\ pc = "rejected"
           /\ anaPath = "none"
           /\ returned = None
           /\ thrown # None

C1_Witness ==
    /\ Validator
    /\ validationResult # None
    /\ ~validationResult.isClothing
    /\ pc = "rejected"

\* C2: the confidence performComprehensiveClothingValidation returns is the
\* sum of the weights of the signals that passed (fabric 30, silhouette 25,
\* colour area 20, subject focus 15, no anti-pattern 10), lies in 0..100,
\* and isClothing holds exactly when it is at least 75.
C2_ConfidenceIsWeightSum ==
    (Validator /\ valPath = "scored")
        => LET sig == imageFile.signals
               passed ==
                   {w \in {30, 25, 20, 15, 10} :
                      \/ w = 30 /\ sig.isFabric
                      \/ w = 25 /\ sig.hasGarmentShapes
                      \/ w = 20 /\ sig.hasClothingColors
                      \/ w = 15 /\ sig.hasDefinedSubject
                      \/ w = 10 /\ ~sig.hasArchitecture}
               Sum[S \in SUBSET passed] ==
                   IF S = {} THEN 0
                   ELSE LET w == CHOOSE x \in S : TRUE
                        IN  w + Sum[S \ {w}]
           IN  /\ validationResult.confidence = Sum[passed]
               /\ validationResult.confidence \in 0..100
               /\ validationResult.isClothing
                    <=> validationResult.confidence >= 75

C2_Witness ==
    /\ Validator
    /\ valPath = "scored"
    /\ validationResult.confidence = 75
    /\ validationResult.isClothing

DecodeFailed == imageFile # None /\ ~imageFile.decodes /\ pc \in Ended

\* C4 as stated: in both versions a call whose image fails to decode ends
\* with the error "Failed to load image", after one load and without a
\* record.
C4_DecodeErrorSurfacedEverywhere ==
    DecodeFailed
        => /\ thrown = [message |-> LoadErrorMessage]
           /\ returned = None
           /\ loadAttempts = 1

\* C4: a call whose image fails to decode loads once.  The validator-gated
\* version ends it with the error "Failed to load image" and no record; the
\* advanced version ends it with one of its fallback records and no error.
C4_DecodeErrorByVersion ==
    DecodeFailed
        => /\ loadAttempts = 1
           /\ Validator => /\ pc = "failed"
                           /\ thrown = [message |-> LoadErrorMessage]
                           /\ returned = None
           /\ Advanced => /\ pc = "done"
                          /\ thrown = None
                          /\ returned \in generateIntelligentFallbackAdv

C4_Witness ==
    /\ DecodeFailed
    /\ Validator
    /\ thrown = [message |-> LoadErrorMessage]

\* C5 as stated: the validator-gated call ends with the not-clothing error
\* only when the validator scored the image below 75, and a validation that
\* failed internally ends in the Failed outcome.
C5_RejectedOnlyWhenScored ==
    Validator
        => /\ pc = "rejected"
                => /\ valPath = "scored"
                   /\ validationResult.confidence < 75
           /\ (pc \in Ended /\ valPath \in {"noctx", "throws"})
                => pc = "failed"
\* C6 as stated: OutfitAnalyzer shows a different notification for each of
\* the four outcomes of a call (success, decode failure, rejection, degraded
\* analysis that returned the fallback record).
C6_NotificationPerOutcome ==
    \A o1, o2 \in OutcomeKinds :
        (o1 # o2 /\ lastNote[o1] # None /\ lastNote[o2] # None)
            => lastNote[o1] # lastNote[o2]

FallbackSupplied ==
    /\ pc = "done"
    /\ \/ anaPath = "fallback"
       \/ imageFile # None /\ ~imageFile.decodes

\* C7 as stated: in the advanced version a record supplied by
\* generateIntelligentFallback has a confidence below the base 60 that
\* calculateConfidence gives every successful analysis at least.
C7_FallbackConfidenceReduced ==
    /\ (Advanced /\ FallbackSupplied) => returned.confidence < BaseConfidence
    /\ (Advanced /\ pc = "done" /\ anaPath = "analyzed")
          => returned.confidence >= BaseConfidence

\* C8: in the validator-gated version the record returned when
\* performAdvancedAnalysis fails internally is the one record with
\* confidence 45, pattern_detected 'unclear', fabric_texture 'unknown' and
\* silhouette 'regular', and a successful analysis returns none of these
\* three labels.
C8_FallbackLabelled ==
    (Validator /\ pc = "done")
        => LET d == returned.analysis_details
           IN  /\ anaPath = "fallback" =>
                    /\ returned = generateIntelligentFallback
                    /\ returned.confidence = 45
                    /\ d.pattern_detected = "unclear"
                    /\ d.fabric_texture = "unknown"
                    /\ d.silhouette = "regular"
               /\ anaPath = "analyzed" =>
                    /\ d.pattern_detected # "unclear"
                    /\ d.fabric_texture # "unknown"
                    /\ d.silhouette # "regular"

C8_Witness ==
    /\ Validator
    /\ pc = "done"
    /\ anaPath = "fallback"
    /\ returned.analysis_details.pattern_detected = "unclear"

\* a second call with the same File has ended the way the first did
SamePathAgain ==
    /\ Advanced
    /\ pc = "done"
    /\ previous # None
    /\ previous.anaPath = anaPath

PhaseOrder ==
    {<<"idle", "called">>, <<"called", "ready">>, <<"ready", "loading">>,
     <<"loading", "validating">>, <<"loading", "failed">>,
     <<"validating", "analyzing">>, <<"validating", "rejected">>,
     <<"analyzing", "done">>,
     <<"done", "idle">>, <<"rejected", "idle">>, <<"failed", "idle">>}

\* C10: a call of the validator-gated analyzeClothing goes through Ready,
\* Loading, Validating, Analyzing in this order: the service is initialized
\* when the load starts, validation starts from a load that succeeded,
\* analysis starts from a validation that accepted, and the call ends either
\* with a record (Done) or with an error (Rejected, Failed), never both.
C10_PhaseOrder ==
    [][(Validator /\ pc' # pc)
         => /\ <<pc, pc'>> \in PhaseOrder
            /\ pc' = "loading" => isInitialized'
            /\ pc' = "validating" => imageFile.decodes /\ url' = 0
            /\ pc' = "analyzing"
                 => validationResult' # None /\ validationResult'.isClothing
            /\ pc' = "done" => returned' # None /\ thrown' = None
            /\ pc' \in {"rejected", "failed"}
                 => returned' = None /\ thrown' # None]_vars

C10_Witness ==
    /\ Validator
    /\ pc = "done"
    /\ isInitialized
    /\ validationResult # None
    /\ validationResult.isClothing
    /\ returned # None

(***************************************************************************)
(* The model-backed version of the service (clothingAnalysis.ts 19-302).   *)
(* A classification is modelled by the score of its first result, in       *)
(* hundredths, and by what the keyword tables find in its labels.          *)
(***************************************************************************)
\* mapClassificationToFeatures when no keyword is found in any label
DefaultFeatures ==
    [neckline |-> "crew neck", sleeves |-> "short sleeves",
     top_style |-> "fitted", bottom_style |-> "straight-leg",
     dress_style |-> "a-line", rise |-> "mid-rise",
     colors |-> <<"neutral">>, fit |-> "fitted"]

\* mapClassificationToFeatures on labels that hold some keywords
KeywordFeatures ==
    {DefaultFeatures,
     [DefaultFeatures EXCEPT !.neckline = "v-neck"],
     [DefaultFeatures EXCEPT !.sleeves = "sleeveless", !.fit = "loose"],
     [DefaultFeatures EXCEPT !.colors = <<"black", "white">>],
     [DefaultFeatures EXCEPT !.bottom_style = "skinny",
                             !.rise = "high-waisted"],
     [DefaultFeatures EXCEPT !.dress_style = "bodycon", !.fit = "tight"]}

\* score: 0 also when results is empty or its first result has no score
Scores == {0, 37, 50, 99}

\* labelled: every result has a label
ClassifierResults ==
    [score : Scores, features : KeywordFeatures, labelled : BOOLEAN]

\* topResult?.score || 0.5, then Math.round(confidence * 100)
extractClothingFeaturesModel(results) ==
    [neckline |-> results.features.neckline,
     sleeves |-> results.features.sleeves,
     top_style |-> results.features.top_style,
     bottom_style |-> results.features.bottom_style,
     dress_style |-> results.features.dress_style,
     rise |-> results.features.rise,
     colors |-> results.features.colors,
     fit |-> results.features.fit,
     confidence |-> IF results.score = 0 THEN 50 ELSE results.score]

commonFeatures ==
    <<[neckline |-> "crew neck", sleeves |-> "short sleeves",
       top_style |-> "fitted", bottom_style |-> "straight-leg",
       dress_style |-> "a-line", rise |-> "mid-rise",
       colors |-> <<"neutral">>, fit |-> "fitted", confidence |-> 75],
      [neckline |-> "v-neck", sleeves |-> "sleeveless",
       top_style |-> "blouse", bottom_style |-> "skinny",
       dress_style |-> "bodycon", rise |-> "high-waisted",
       colors |-> <<"black">>, fit |-> "fitted", confidence |-> 70]>>

generateIntelligentFallbackModel ==
    {commonFeatures[i] : i \in 1..Len(commonFeatures)}

\* pipeline(): on WebGPU, else on the CPU, else it throws
PipelineOutcomes == {"webgpu", "cpu", "fails"}

ModelImages ==
    {Undecodable,
     Decoded(NoSignals, PlainSize, 0, ColorList(1, 40), 0, 2, PlainRegions)}

CallModel ==
    /\ pc = "idle"
    /\ \E image \in ModelImages : Enter(image)
    /\ UNCHANGED <<previous, uiVars, restVars>>

\* if (!this.isInitialized) await this.initialize(), outside the try block
InitializeModel ==
    /\ pc = "called"
    /\ IF isInitialized
       THEN /\ pc' = "ready"
            /\ UNCHANGED <<isInitialized, imageClassifier, thrown>>
       ELSE \E outcome \in PipelineOutcomes :
               IF outcome = "fails"
               THEN /\ thrown' = [message |-> "pipeline failed"]
                    /\ pc' = "failed"
                    /\ UNCHANGED <<isInitialized, imageClassifier>>
               ELSE /\ imageClassifier' = outcome
                    /\ isInitialized' = TRUE
                    /\ pc' = "ready"
                    /\ UNCHANGED thrown
    /\ UNCHANGED <<variant, imageFile, url, loadAttempts, validationResult,
                   valPath, anaPath, returned, previous, uiVars, colorVars,
                   passVars, contourVars, garmentVars,
                   callVars,
                   overlapVars>>

\* URL.createObjectURL(imageFile); this.imageClassifier(imageUrl)
Classify ==
    /\ pc = "ready"
    /\ url' = url + 1
    /\ pc' = "classifying"
    /\ UNCHANGED <<variant, isInitialized, imageFile, loadAttempts,
                   validationResult, valPath, anaPath, returned, thrown,
                   previous, uiVars, restVars>>

\* the classifier resolved: revokeObjectURL, extractClothingFeatures; a
\* result without a label throws there and the catch block supplies the
\* fallback
ClassifierResolved ==
    /\ pc = "classifying"
    /\ imageFile.decodes
    /\ url' = url - 1
    /\ \E results \in ClassifierResults :
          IF results.labelled
          THEN /\ returned' = extractClothingFeaturesModel(results)
               /\ anaPath' = "analyzed"
          ELSE /\ returned' \in generateIntelligentFallbackModel
               /\ anaPath' = "fallback"
    /\ pc' = "done"
    /\ UNCHANGED <<variant, isInitialized, imageFile, loadAttempts,
                   validationResult, valPath, thrown, previous, uiVars,
                   restVars>>

\* the classifier rejected: the catch block supplies the fallback
ClassifierRejected ==
    /\ pc = "classifying"
    /\ returned' \in generateIntelligentFallbackModel
    /\ anaPath' = "fallback"
    /\ pc' = "done"
    /\ UNCHANGED <<variant, isInitialized, imageFile, url, loadAttempts,
                   validationResult, valPath, thrown, previous, uiVars,
                   restVars>>

InitModel ==
    /\ variant = "model"
    /\ InitService
    /\ InitUI
    /\ IdleExcept("model")
    /\ imageClassifier = None

NextModel ==
    \/ CallModel
    \/ InitializeModel
    \/ Classify
    \/ ClassifierResolved
    \/ ClassifierRejected
    \/ Settle

SpecModel == InitModel /\ [][NextModel]_vars

\* C11 as stated: in every version of the service, when a call of
\* analyzeClothing has settled, every object URL it created for the image
\* has been revoked.
C11_UrlRevokedWhenSettled ==
    pc \in Ended => url = 0

(***************************************************************************)
(* getAdvancedColorName.  Distances are compared by their squares, which   *)
(* orders them as Math.sqrt does.                                          *)
(***************************************************************************)
ReferenceColors ==
    <<[name |-> "black", r |-> 0, g |-> 0, b |-> 0, threshold |-> 60],
      [name |-> "white", r |-> 255, g |-> 255, b |-> 255, threshold |-> 60],
      [name |-> "red", r |-> 255, g |-> 0, b |-> 0, threshold |-> 80],
      [name |-> "burgundy", r |-> 128, g |-> 0, b |-> 32, threshold |-> 60],
      [name |-> "pink", r |-> 255, g |-> 192, b |-> 203, threshold |-> 70],
      [name |-> "blue", r |-> 0, g |-> 0, b |-> 255, threshold |-> 80],
      [name |-> "navy", r |-> 0, g |-> 0, b |-> 128, threshold |-> 60],
      [name |-> "light blue", r |-> 173, g |-> 216, b |-> 230,
       threshold |-> 70],
      [name |-> "green", r |-> 0, g |-> 255, b |-> 0, threshold |-> 80],
      [name |-> "forest green", r |-> 34, g |-> 139, b |-> 34,
       threshold |-> 60],
      [name |-> "yellow", r |-> 255, g |-> 255, b |-> 0, threshold |-> 80],
      [name |-> "orange", r |-> 255, g |-> 165, b |-> 0, threshold |-> 70],
      [name |-> "purple", r |-> 128, g |-> 0, b |-> 128, threshold |-> 70],
      [name |-> "brown", r |-> 139, g |-> 69, b |-> 19, threshold |-> 60],
      [name |-> "tan", r |-> 210, g |-> 180, b |-> 140, threshold |-> 60],
      [name |-> "gray", r |-> 128, g |-> 128, b |-> 128, threshold |-> 50],
      [name |-> "beige", r |-> 245, g |-> 245, b |-> 220, threshold |-> 60],
      [name |-> "cream", r |-> 255, g |-> 253, b |-> 208, threshold |-> 60],
      [name |-> "khaki", r |-> 240, g |-> 230, b |-> 140, threshold |-> 60]>>

\* the square of the distance from (r, g, b) to the reference colour c
SquaredDistance(r, g, b, c) ==
    (r - c.r) * (r - c.r) + (g - c.g) * (g - c.g) + (b - c.b) * (b - c.b)

\* minDistance starts at Infinity: above every squared distance
getAdvancedColorNameNoThreshold(r, g, b) ==
    LET Scan[i \in 0..Len(ReferenceColors)] ==
            IF i = 0
            THEN [closestColor |-> "neutral", minDistance |-> 3 * 256 * 256]
            ELSE LET color == ReferenceColors[i]
                     distance == SquaredDistance(r, g, b, color)
                 IN  IF distance < Scan[i - 1].minDistance
                     THEN [closestColor |-> color.name,
                           minDistance |-> distance]
                     ELSE Scan[i - 1]
    IN  Scan[Len(ReferenceColors)].closestColor

getAdvancedColorNameLastWins(r, g, b) ==
    LET Scan[i \in 0..Len(ReferenceColors)] ==
            IF i = 0
            THEN [closestColor |-> "neutral", minDistance |-> 3 * 256 * 256]
            ELSE LET color == ReferenceColors[i]
                     distance == SquaredDistance(r, g, b, color)
                 IN  IF /\ distance < color.threshold * color.threshold
                        /\ distance <= Scan[i - 1].minDistance
                     THEN [closestColor |-> color.name,
                           minDistance |-> distance]
                     ELSE Scan[i - 1]
    IN  Scan[Len(ReferenceColors)].closestColor

getAdvancedColorName(r, g, b) ==
    LET Scan[i \in 0..Len(ReferenceColors)] ==
            IF i = 0
            THEN [closestColor |-> "neutral", minDistance |-> 3 * 256 * 256]
            ELSE LET color == ReferenceColors[i]
                     distance == SquaredDistance(r, g, b, color)
                 IN  IF /\ distance < color.threshold * color.threshold
                        /\ distance < Scan[i - 1].minDistance
                     THEN [closestColor |-> color.name,
                           minDistance |-> distance]
                     ELSE Scan[i - 1]
    IN  Scan[Len(ReferenceColors)].closestColor

\* The RGB triples tried: a grid over the cube, the reference colours, and
\* triples at the same distance from two reference colours.
GridSteps == 15

Levels == {(255 * i) \div GridSteps : i \in 0..GridSteps}

TiePixels ==
    {<<93, 0, 80>>, <<128, 40, 80>>, <<128, 59, 80>>, <<64, 0, 100>>,
     <<64, 0, 64>>, <<255, 210, 0>>, <<225, 205, 140>>, <<250, 249, 214>>}

Pixels ==
    (Levels \X Levels \X Levels)
    \cup {<<ReferenceColors[i].r, ReferenceColors[i].g,
            ReferenceColors[i].b>> : i \in 1..Len(ReferenceColors)}
    \cup TiePixels

InitColor ==
    /\ variant = "validator"
    /\ InitService
    /\ InitUI
    /\ IdleExcept("color")
    /\ rgb \in Pixels
    /\ colorName = None

GetAdvancedColorName ==
    /\ colorName = None
    /\ colorName' = [name |-> getAdvancedColorName(rgb[1], rgb[2], rgb[3])]
    /\ UNCHANGED <<svcVars, previous, uiVars, mlVars, rgb, passVars,
                   contourVars, garmentVars,
                   callVars,
                   overlapVars>>

NextColor == GetAdvancedColorName

SpecColor == InitColor /\ [][NextColor]_vars

\* the reference colours whose distance to rgb is below their own threshold
Qualifying ==
    {i \in 1..Len(ReferenceColors) :
        SquaredDistance(rgb[1], rgb[2], rgb[3], ReferenceColors[i])
            < ReferenceColors[i].threshold * ReferenceColors[i].threshold}

DistanceTo(i) == SquaredDistance(rgb[1], rgb[2], rgb[3], ReferenceColors[i])

\* C12: getAdvancedColorName returns the name of a reference colour at the
\* smallest distance among those whose distance is below their own
\* threshold, 'neutral' when there is none, and 'black' for (0, 0, 0).
C12_NearestWithinThreshold ==
    colorName # None
        => /\ IF Qualifying = {}
              THEN colorName.name = "neutral"
              ELSE \E i \in Qualifying :
                      /\ colorName.name = ReferenceColors[i].name
                      /\ \A j \in Qualifying : DistanceTo(i) <= DistanceTo(j)
           /\ rgb = <<0, 0, 0>> => colorName.name = "black"

C12_Witness ==
    /\ colorName # None
    /\ Cardinality(Qualifying) >= 2
    /\ colorName.name = "tan"

\* two reference colours at the same distance from rgb, i declared first
Tied(i, j) == i < j /\ DistanceTo(i) = DistanceTo(j)

MaxSide == 5

Shades == {<<0, 0, 0>>, <<128, 128, 128>>, <<255, 255, 255>>,
           <<255, 0, 0>>, <<20, 20, 60>>}

ShadePairs == {<<<<0, 0, 0>>, <<255, 255, 255>>>>,
               <<<<128, 128, 128>>, <<255, 0, 0>>>>,
               <<<<255, 255, 255>>, <<20, 20, 60>>>>}

\* pictures: one colour; two colours side by side, one above the other, in
\* a checkerboard, or the second as a single pixel; and wide pictures of six
\* palette colours in bands, so that a region samples more than five colours
PassImages ==
    [width : 1..MaxSide, height : 1..MaxSide, picture : {"uniform"},
     shades : {<<c, c>> : c \in Shades}]
    \cup [width : 1..MaxSide, height : 1..MaxSide,
          picture : {"columns", "rows", "checker", "dot"},
          shades : ShadePairs]
    \cup [width : {12}, height : {3, 12}, picture : {"rainbow"},
          shades : {<<<<0, 0, 0>>, <<0, 0, 0>>>>}]

\* the pixel at (x, y)
PixelAt(image, x, y) ==
    LET band == ReferenceColors[3 + (IF y >= 2 THEN x \div 4 ELSE x \div 2)]
        second ==
            CASE image.picture \in {"uniform", "rainbow"} -> FALSE
              [] image.picture = "columns" -> 2 * x >= image.width
              [] image.picture = "rows" -> 2 * y >= image.height
              [] image.picture = "checker" -> (x + y) % 2 = 1
              [] image.picture = "dot" ->
                    x = image.width \div 2 /\ y = image.height \div 2
    IN  IF image.picture = "rainbow" THEN <<band.r, band.g, band.b>>
        ELSE IF second THEN image.shades[2] ELSE image.shades[1]

\* data[index] + data[index + 1] + data[index + 2] for the pixel at (x, y)
Intensity3(image, x, y) ==
    LET p == PixelAt(image, x, y) IN p[1] + p[2] + p[3]

\* the three buffer indexes read for the pixel at (x, y)
PixelIndexes(image, x, y) ==
    LET index == (y * image.width + x) * 4
    IN  {index, index + 1, index + 2}

BufferLength(image) == image.width * image.height * 4

\* analyzeImageRegions.regions, in hundredths of the width and height
RegionW == <<100, 100, 100, 100, 100, 20, 20, 40>>
RegionH == <<35, 25, 30, 25, 30, 100, 100, 100>>

\* height * 0.7 + height * 0.3 in double arithmetic is just below height
\* for these heights (up to 12), so that its floor is height - 1
SumBelowInteger(i, n) == i = 5 /\ n \in {3, 6, 12}

\* Math.floor(region.y) .. Math.floor(region.y + region.height), stepping 2
RegionRows(image, i) ==
    LET first == (RegionY[i] * image.height) \div 100
        end == ((RegionY[i] + RegionH[i]) * image.height) \div 100
               - (IF SumBelowInteger(i, image.height) THEN 1 ELSE 0)
    IN  {y \in first..(end - 1) :
            (y - first) % 2 = 0 /\ y >= 0 /\ y < image.height}

RegionColumns(image, i) ==
    LET first == (RegionX[i] * image.width) \div 100
        end == ((RegionX[i] + RegionW[i]) * image.width) \div 100
    IN  {x \in first..(end - 1) :
            (x - first) % 2 = 0 /\ x >= 0 /\ x < image.width}

\* the kernel positions calculateSobelEdge reads around (x, y)
SobelNeighbours(image, x, y) ==
    {k \in (0..2) \X (0..2) :
        LET px == x + k[1] - 1
            py == y + k[2] - 1
        IN  px >= 0 /\ px < image.width /\ py >= 0}

sobelX == <<<<-1, 0, 1>>, <<-2, 0, 2>>, <<-1, 0, 1>>>>
sobelY == <<<<-1, -2, -1>>, <<0, 0, 0>>, <<1, 2, 1>>>>

\* a pixel past the last row reads as undefined; no caller gets there
KernelSum(image, x, y, kernel) ==
    LET Term(kx, ky) ==
            IF <<kx, ky>> \in SobelNeighbours(image, x, y)
            THEN Intensity3(image, x + kx - 1, y + ky - 1)
                   * kernel[ky + 1][kx + 1]
            ELSE 0
    IN  Term(0, 0) + Term(1, 0) + Term(2, 0)
        + Term(0, 1) + Term(1, 1) + Term(2, 1)
        + Term(0, 2) + Term(1, 2) + Term(2, 2)

\* 9 * (gx * gx + gy * gy)
calculateSobelEdge(image, x, y) ==
    LET gx == KernelSum(image, x, y, sobelX)
        gy == KernelSum(image, x, y, sobelY)
    IN  gx * gx + gy * gy

SobelReads(image, x, y) ==
    UNION {PixelIndexes(image, x + k[1] - 1, y + k[2] - 1) :
             k \in SobelNeighbours(image, x, y)}

\* the sum of the values of a function with a finite domain
SumFn(f) ==
    LET Sum[D \in SUBSET DOMAIN f] ==
            IF D = {} THEN 0
            ELSE LET d == CHOOSE d \in D : TRUE
                 IN  f[d] + Sum[D \ {d}]
    IN  Sum[DOMAIN f]

\* pixelCount > 0 ? count / pixelCount : otherwise, as a fraction; a
\* denominator 0 stands for NaN
RatioUnguarded(count, pixelCount, otherwise) ==
    [num |-> count, den |-> pixelCount]

Ratio(count, pixelCount, otherwise) ==
    IF pixelCount > 0 THEN [num |-> count, den |-> pixelCount]
    ELSE [num |-> otherwise, den |-> 1]

\* Math.min((colorVariance / 1000 + edgeDensity * 10) * 100, 100)
calculateTextureComplexityUncapped(colorVariance, edgeDensity) ==
    [num |-> colorVariance.num * edgeDensity.den
               + 10000 * edgeDensity.num * colorVariance.den,
     den |-> 10 * colorVariance.den * edgeDensity.den]

calculateTextureComplexity(colorVariance, edgeDensity) ==
    LET num == colorVariance.num * edgeDensity.den
                 + 10000 * edgeDensity.num * colorVariance.den
        den == 10 * colorVariance.den * edgeDensity.den
    IN  IF num >= 100 * den THEN [num |-> 100, den |-> 1]
        ELSE [num |-> num, den |-> den]

\* the region pass evaluates the Sobel operator at a sampled pixel only here
EvaluatesSobelEverywhere(image, x, y) == TRUE

EvaluatesSobel(image, x, y) == x < image.width - 2 /\ y < image.height - 2

\* the pixels the region pass samples in region i, as <<x, y>>
Samples(image, i) == RegionColumns(image, i) \X RegionRows(image, i)

analyzeDetailedRegion(image, i) ==
    LET S == Samples(image, i)
        pixelCount == Cardinality(S)
        totalBrightness == SumFn([p \in S |-> Intensity3(image, p[1], p[2])])
        Edges(t) ==
            {p \in S : /\ EvaluatesSobel(image, p[1], p[2])
                       /\ calculateSobelEdge(image, p[1], p[2]) > 9 * t * t}
        edgeCount == Cardinality(Edges(30))
        \* the mean of (brightness - average)^2, which is
        \* (n * sum of squares - square of sum) / n^2
        colorVariance ==
            IF pixelCount > 0
            THEN [num |-> pixelCount
                            * SumFn([p \in S |->
                                Intensity3(image, p[1], p[2])
                                  * Intensity3(image, p[1], p[2])])
                          - totalBrightness * totalBrightness,
                  den |-> 9 * pixelCount * pixelCount]
            ELSE [num |-> 0, den |-> 1]
        NameOf(p) ==
            LET c == PixelAt(image, p[1], p[2])
            IN  getAdvancedColorName(c[1], c[2], c[3])
        names == {NameOf(p) : p \in S}
        Count(n) == Cardinality({p \in S : NameOf(p) = n})
        \* keys of colorCounts are in the order of their first sample
        First(n) ==
            CHOOSE r \in {p[2] * image.width + p[1] : p \in S} :
                /\ \E p \in S : r = p[2] * image.width + p[1] /\ NameOf(p) = n
                /\ \A p \in S : NameOf(p) = n
                                  => r <= p[2] * image.width + p[1]
        Before(a, b) ==
            \/ Count(a) > Count(b)
            \/ Count(a) = Count(b) /\ First(a) < First(b)
        sorted ==
            [k \in 1..Cardinality(names) |->
                CHOOSE n \in names :
                    Cardinality({m \in names : Before(m, n)}) = k - 1]
    IN  [pixelCount |-> pixelCount,
         averageBrightness |-> Ratio(totalBrightness, 3 * pixelCount, 128),
         edgeDensity |-> Ratio(edgeCount, pixelCount, 0),
         colorVariance |-> colorVariance,
         dominantColors |->
            [k \in 1..Min(Cardinality(names), 5) |->
                [color |-> sorted[k],
                 percentage |-> [num |-> 100 * Count(sorted[k]),
                                 den |-> pixelCount]]],
         contours |-> Ratio(Cardinality(Edges(60)), pixelCount, 0),
         textureComplexity |->
            calculateTextureComplexity(
                colorVariance,
                [num |-> edgeCount,
                 den |-> IF pixelCount > 1 THEN pixelCount ELSE 1])]

\* what the region pass reads in region i
RegionReads(image, i) ==
    UNION {PixelIndexes(image, p[1], p[2])
             \cup (IF EvaluatesSobel(image, p[1], p[2])
                   THEN SobelReads(image, p[1], p[2]) ELSE {}) :
             p \in Samples(image, i)}

InitPasses ==
    /\ variant = "validator"
    /\ InitService
    /\ InitUI
    /\ IdleExcept("passes")
    /\ imageData \in PassImages
    /\ pass = "none"
    /\ reads = {}
    /\ regionStats = None

AnalyzeImageRegions ==
    /\ pass = "none"
    /\ pass' = "regions"
    /\ regionStats' =
          [i \in 1..NumRegions |-> analyzeDetailedRegion(imageData, i)]
    /\ reads' = UNION {RegionReads(imageData, i) : i \in 1..NumRegions}
    /\ UNCHANGED <<svcVars, previous, uiVars, mlVars, colorVars, imageData,
                   contourVars, garmentVars,
                   callVars,
                   overlapVars>>

\* ---------------------------------------------------------------------
\* findContours and traceContour, one loop iteration per step.  An edge map
\* holds, for every pixel <<x, y>>, 9 times the squared gradient magnitude.
\* ---------------------------------------------------------------------

\* magnitude > t
Exceeds(value, t) == value > 9 * t * t

Grid(map) == (0..(map.width - 1)) \X (0..(map.height - 1))

\* the position of the loops of findContours at or after rank y * width + x
ScanFrom(map, rank) ==
    LET I == {p \in (1..(map.width - 2)) \X (1..(map.height - 2)) :
                 p[2] * map.width + p[1] >= rank}
    IN  IF I = {} THEN [at |-> "done", x |-> 0, y |-> 0]
        ELSE LET p == CHOOSE p \in I :
                        \A q \in I : p[2] * map.width + p[1]
                                       <= q[2] * map.width + q[1]
             IN  [at |-> "scan", x |-> p[1], y |-> p[2]]

\* while (stack.length > 0 && contour.length < 100)
TraceContinuesUncapped(st, c) == Len(st) > 0

TraceContinues(st, c) == Len(st) > 0 /\ Len(c) < 100

\* stack.pop()
PoppedNever(st) == st

Popped(st) == SubSeq(st, 1, Len(st) - 1)

\* the nine positions pushed around p, dy outermost
Neighbours(p) ==
    [k \in 1..9 |-> <<p[1] + ((k - 1) % 3) - 1, p[2] + ((k - 1) \div 3) - 1>>]

\* one test of the loops of findContours
FindContoursScan ==
    /\ scan.at = "scan"
    /\ LET p == <<scan.x, scan.y>>
       IN  IF Exceeds(edgeMap.at[p], 50) /\ p \notin visited
           THEN /\ scan' = [scan EXCEPT !.at = "trace"]
                /\ stack' = <<p>>
                /\ contour' = <<>>
           ELSE /\ scan' = ScanFrom(edgeMap, p[2] * edgeMap.width + p[1] + 1)
                /\ UNCHANGED <<stack, contour>>
    /\ UNCHANGED <<svcVars, previous, uiVars, mlVars, colorVars, passVars,
                   garmentVars, callVars, overlapVars,
                   edgeMap, visited, contours>>

\* one iteration of the loop of traceContour
TraceContour ==
    /\ scan.at = "trace"
    /\ TraceContinues(stack, contour)
    /\ LET p == stack[Len(stack)]
       IN  IF p \notin Grid(edgeMap) \/ p \in visited
           THEN /\ stack' = Popped(stack)
                /\ UNCHANGED <<visited, contour>>
           ELSE IF Exceeds(edgeMap.at[p], 40)
           THEN /\ visited' = visited \cup {p}
                /\ contour' = Append(contour, p)
                /\ stack' = Popped(stack) \o Neighbours(p)
           ELSE /\ stack' = Popped(stack)
                /\ UNCHANGED <<visited, contour>>
    /\ UNCHANGED <<svcVars, previous, uiVars, mlVars, colorVars, passVars,
                   garmentVars, callVars, overlapVars,
                   edgeMap, scan, contours>>

\* traceContour returns; findContours keeps the contour or drops it
TraceContourReturn ==
    /\ scan.at = "trace"
    /\ ~TraceContinues(stack, contour)
    /\ contours' = IF Len(contour) > 10 THEN Append(contours, contour)
                   ELSE contours
    /\ scan' = ScanFrom(edgeMap, scan.y * edgeMap.width + scan.x + 1)
    /\ stack' = <<>>
    /\ contour' = <<>>
    /\ UNCHANGED <<svcVars, previous, uiVars, mlVars, colorVars, passVars,
                   garmentVars, callVars, overlapVars,
                   edgeMap, visited>>

MaxMap == 12

EdgeShapes == {"full", "weak", "seed", "stripes", "dots"}

\* edge maps of every shape: some without a seed, some whose contours are
\* too short to keep, some with more connected pixels than a contour holds
EdgeMaps ==
    {[width |-> w, height |-> h,
      at |-> [p \in (0..(w - 1)) \X (0..(h - 1)) |->
                LET strong ==
                        CASE shape = "full" -> TRUE
                          [] shape = "weak" -> FALSE
                          [] shape = "seed" -> p = <<1, 1>>
                          [] shape = "stripes" -> p[2] % 2 = 1
                          [] shape = "dots" -> p[1] % 2 = 1 /\ p[2] % 2 = 1
                    weak == shape \in {"weak", "seed"}
                IN  IF strong THEN 9 * 55 * 55
                    ELSE IF weak THEN 9 * 45 * 45 ELSE 0]] :
        w \in {1, 3, MaxMap}, h \in {1, 3, MaxMap}, shape \in EdgeShapes}

InitContour ==
    /\ variant = "validator"
    /\ InitService
    /\ InitUI
    /\ IdleExcept("contour")
    /\ edgeMap \in EdgeMaps
    /\ visited = {}
    /\ scan = ScanFrom(edgeMap, 0)
    /\ stack = <<>>
    /\ contour = <<>>
    /\ contours = <<>>

NextContour == FindContoursScan \/ TraceContour \/ TraceContourReturn

SpecContour == InitContour /\ [][NextContour]_vars

\* the loops are ordinary sequential code: a step that can run does run
FairSpecContour == SpecContour /\ WF_vars(NextContour)

\* ---------------------------------------------------------------------
\* The other measurement passes of performAdvancedAnalysis, in its order.
\* ---------------------------------------------------------------------

\* for (let i = 0; i < data.length; i += 16): data[i], data[i+1], data[i+2]
ColorReads(image) ==
    UNION {{i, i + 1, i + 2} :
             i \in {j \in 0..(BufferLength(image) - 1) : j % 16 = 0}}

\* the pixels at which detectEdgesAndContours evaluates the Sobel operator
Interior(image) == (1..(image.width - 2)) \X (1..(image.height - 2))

\* the centre pixels of analyzeTexture, every fourth from 1
TextureCentres(image) ==
    {p \in Interior(image) : p[1] % 4 = 1 /\ p[2] % 4 = 1}

\* the centre and its eight neighbours
TextureReads(image) ==
    UNION {PixelIndexes(image, p[1] + d[1], p[2] + d[2]) :
             p \in TextureCentres(image), d \in (-1..1) \X (-1..1)}

PerformAdvancedColorAnalysis ==
    /\ pass = "regions"
    /\ pass' = "colors"
    /\ reads' = reads \cup ColorReads(imageData)
    /\ UNCHANGED <<svcVars, previous, uiVars, mlVars, colorVars, imageData,
                   regionStats, contourVars, garmentVars,
                   callVars,
                   overlapVars>>

\* fills the edge map and enters findContours, whose steps are above
DetectEdgesAndContours ==
    /\ pass = "colors"
    /\ pass' = "edges"
    /\ reads' = reads \cup UNION {SobelReads(imageData, p[1], p[2]) :
                                    p \in Interior(imageData)}
    /\ edgeMap' =
          [width |-> imageData.width, height |-> imageData.height,
           at |-> [p \in (0..(imageData.width - 1))
                           \X (0..(imageData.height - 1)) |->
                     IF p \in Interior(imageData)
                     THEN calculateSobelEdge(imageData, p[1], p[2])
                     ELSE 0]]
    /\ visited' = {}
    /\ contours' = <<>>
    /\ scan' = ScanFrom(edgeMap', 0)
    /\ UNCHANGED <<svcVars, previous, uiVars, mlVars, colorVars, imageData,
                   regionStats, stack, contour, garmentVars,
                   callVars,
                   overlapVars>>

AnalyzeTexture ==
    /\ pass = "edges"
    /\ scan.at = "done"
    /\ pass' = "texture"
    /\ reads' = reads \cup TextureReads(imageData)
    /\ UNCHANGED <<svcVars, previous, uiVars, mlVars, colorVars, imageData,
                   regionStats, contourVars, garmentVars,
                   callVars,
                   overlapVars>>

NextPasses ==
    \/ AnalyzeImageRegions
    \/ PerformAdvancedColorAnalysis
    \/ DetectEdgesAndContours
    \/ FindContoursScan
    \/ TraceContour
    \/ TraceContourReturn
    \/ AnalyzeTexture

SpecPasses == InitPasses /\ [][NextPasses]_vars

\* C16: every contour findContours has kept has more than 10 and at most
\* 100 points, every point is a pixel of the map whose magnitude exceeds 40,
\* no pixel is twice in a contour and no pixel is in two contours.
C16_ContoursWellFormed ==
    edgeMap # None =>
      \A i \in 1..Len(contours) :
        LET c == contours[i]
        IN  /\ Len(c) > 10
            /\ Len(c) <= 100
            /\ \A k \in 1..Len(c) :
                  /\ c[k] \in Grid(edgeMap)
                  /\ edgeMap.at[c[k]] > 9 * 40 * 40
                  /\ \A l \in 1..Len(c) : l # k => c[l] # c[k]
                  /\ \A j \in 1..Len(contours) :
                        j # i => \A l \in 1..Len(contours[j]) :
                                    contours[j][l] # c[k]

\* findContours has returned several contours of a map with more connected
\* pixels than a contour holds: one of them stopped at the cap
C16_Witness ==
    /\ scan.at = "done"
    /\ Len(contours) >= 2
    /\ \E i \in 1..Len(contours) : Len(contours[i]) = 100
    /\ \E i \in 1..Len(contours) : Len(contours[i]) < 100

\* C17: findContours, and with it every call of traceContour, terminates:
\* the loops of every edge map come to their end.
C17_Terminates == <>(scan.at = "done")

\* a trace that met the cap with positions still stacked has returned, and
\* one that emptied its stack has too
C17_Witness ==
    /\ scan.at = "done"
    /\ \E i \in 1..Len(contours) : Len(contours[i]) = 100
    /\ Cardinality(visited) > 100

\* C14: on an image whose pixels all have one colour the Sobel operator is 0
\* at every position the region pass and the edge-map pass evaluate it, and
\* every region's edgeDensity and contours are 0.
C14_UniformImageHasNoEdges ==
    (imageData # None /\ imageData.picture = "uniform" /\ pass # "none") =>
       /\ \A i \in 1..NumRegions :
             /\ regionStats[i].edgeDensity.num = 0
             /\ regionStats[i].contours.num = 0
             /\ \A p \in Samples(imageData, i) :
                   EvaluatesSobel(imageData, p[1], p[2])
                     => calculateSobelEdge(imageData, p[1], p[2]) = 0
       /\ edgeMap # None => \A p \in Grid(edgeMap) : edgeMap.at[p] = 0

\* C15: every index of the pixel buffer a measurement pass reads lies in
\* 0 .. width * height * 4 - 1.
C15_ReadsInsideBuffer ==
    imageData # None =>
       \A i \in reads : i >= 0 /\ i <= BufferLength(imageData) - 1

\* all four passes have read a buffer on which each of them reads something,
\* the last pixel of the buffer among it
C15_Witness ==
    /\ pass = "texture"
    /\ imageData.width >= 3 /\ imageData.height >= 3
    /\ BufferLength(imageData) - 2 \in reads
    /\ TextureReads(imageData) # {}
    /\ \E i \in 1..NumRegions : regionStats[i].pixelCount > 0

\* C18: a region in which no pixel is sampled gets averageBrightness 128,
\* edgeDensity 0, contours 0, colorVariance 0, textureComplexity 0 and no
\* dominant colour, and none of these is a quotient by zero.
C18_EmptyRegionDefaults ==
    regionStats # None =>
      \A i \in 1..NumRegions :
        Samples(imageData, i) = {} =>
          LET stats == regionStats[i]
          IN  /\ stats.averageBrightness = [num |-> 128, den |-> 1]
              /\ stats.edgeDensity.num = 0 /\ stats.edgeDensity.den # 0
              /\ stats.contours.num = 0 /\ stats.contours.den # 0
              /\ stats.colorVariance.num = 0 /\ stats.colorVariance.den # 0
              /\ stats.textureComplexity.num = 0
              /\ stats.textureComplexity.den # 0
              /\ stats.dominantColors = <<>>

\* the regions of a 1x1 image: the top region is empty, the bottom one is not
C18_Witness ==
    /\ pass = "regions"
    /\ imageData.width = 1 /\ imageData.height = 1
    /\ Samples(imageData, 1) = {}
    /\ regionStats[1].pixelCount = 0
    /\ regionStats[5].pixelCount = 1

GarmentSizes ==
    {<<69, 100>>, <<7, 10>>, <<14, 20>>, <<71, 100>>, <<1, 1>>,
     <<129, 100>>, <<13, 10>>, <<26, 20>>, <<131, 100>>}

\* top and bottom regions whose composites are equal, 20 apart, just under
\* 20 apart, in the ratio 1.5 and just over it
GarmentRegions ==
    {[i \in 1..NumRegions |->
        IF i = 1 THEN [Calm EXCEPT !.textureComplexity = t[1],
                                   !.edgeDensity = t[2]]
        ELSE IF i = 5 THEN [Calm EXCEPT !.textureComplexity = b[1],
                                        !.edgeDensity = b[2]]
        ELSE Calm] :
        t \in {0, 20, 40} \X {0, 1}, b \in {0, 20, 30, 40, 60} \X {0, 1}}

InitGarment ==
    /\ variant = "advanced"
    /\ InitService
    /\ InitUI
    /\ IdleExcept("garment")
    /\ garmentArgs \in [regions : GarmentRegions, size : GarmentSizes]
    /\ garmentResult = None

DetectGarmentType ==
    /\ garmentResult = None
    /\ garmentResult' =
          [type |-> detectGarmentTypeAdv(garmentArgs.regions,
                                         garmentArgs.size[1],
                                         garmentArgs.size[2])]
    /\ UNCHANGED <<svcVars, previous, uiVars, mlVars, colorVars, passVars,
                   contourVars, garmentArgs, callVars,
                   overlapVars>>

SpecGarment == InitGarment /\ [][DetectGarmentType]_vars

\* C20: with composite = textureComplexity + 100 * edgeDensity of the top
\* and the bottom region, the advanced detectGarmentType answers by the
\* first rule that applies: width/height < 0.7 gives 'dress' when the
\* composites differ by less than 20 and 'full_outfit' otherwise;
\* width/height > 1.3 gives the region with the strictly higher composite;
\* anything else, 0.7 and 1.3 themselves included, gives 'bottom' when
\* bottom > 1.5 * top and 'top' otherwise.
C20_GarmentTypeRules ==
    garmentResult # None =>
      LET width == garmentArgs.size[1]
          height == garmentArgs.size[2]
          top == 10 * garmentArgs.regions[1].textureComplexity
                 + garmentArgs.regions[1].edgeDensity
          bottom == 10 * garmentArgs.regions[5].textureComplexity
                    + garmentArgs.regions[5].edgeDensity
          type == garmentResult.type
      IN  /\ 10 * width < 7 * height =>
                /\ (top - bottom < 200 /\ bottom - top < 200)
                      => type = "dress"
                /\ (top - bottom >= 200 \/ bottom - top >= 200)
                      => type = "full_outfit"
          /\ 10 * width > 13 * height =>
                /\ type \in {"top", "bottom"}
                /\ top > bottom => type = "top"
                /\ bottom > top => type = "bottom"
          /\ (10 * width >= 7 * height /\ 10 * width <= 13 * height) =>
                type = (IF 2 * bottom > 3 * top THEN "bottom" ELSE "top")

\* an image of aspect ratio exactly 0.7 whose bottom composite is more than
\* 20 and more than half above the top one was judged by the near-square rule
C20_Witness ==
    /\ garmentResult # None
    /\ 10 * garmentArgs.size[1] = 7 * garmentArgs.size[2]
    /\ garmentArgs.regions[5].textureComplexity = 60
    /\ garmentArgs.regions[1].textureComplexity = 20
    /\ garmentResult.type = "bottom"

\* C26: in every record of a successful analysis of the advanced version,
\* dress_style differs from 'not applicable' exactly for garment type
\* 'dress', bottom_style and rise exactly for 'bottom' and 'full_outfit',
\* and neckline and sleeves are 'not applicable' exactly for 'bottom'.
C26_AttributesAgreeWithGarmentType ==
    (variant = "advanced" /\ pc = "done" /\ anaPath = "analyzed") =>
      LET type == returned.analysis_details.garment_type
      IN  /\ returned.dress_style # "not applicable" <=> type = "dress"
          /\ returned.bottom_style # "not applicable"
                <=> type \in {"bottom", "full_outfit"}
          /\ returned.rise # "not applicable"
                <=> type \in {"bottom", "full_outfit"}
          /\ returned.neckline = "not applicable" <=> type = "bottom"
          /\ returned.sleeves = "not applicable" <=> type = "bottom"

\* a successful analysis found a dress: it has a dress style, a neckline
\* and sleeves, and neither bottom style nor rise
C26_Witness ==
    /\ variant = "advanced"
    /\ pc = "done"
    /\ anaPath = "analyzed"
    /\ returned.analysis_details.garment_type = "dress"
    /\ returned.dress_style # "not applicable"
    /\ returned.neckline # "not applicable"
    /\ returned.rise = "not applicable"

\* C27: the validator accepts an image only if the fabric signal passed
\* and, of the other four signals, at most one failed or just subject focus
\* and anti-pattern absence failed; every other combination is rejected.
C27_AcceptedSignalCombinations ==
    (variant = "validator" /\ validationResult # None
       /\ validationResult.isClothing) =>
      LET sig == imageFile.signals
          failed == (IF sig.hasGarmentShapes THEN {} ELSE {"shapes"})
                    \cup (IF sig.hasClothingColors THEN {} ELSE {"colors"})
                    \cup (IF sig.hasDefinedSubject THEN {} ELSE {"subject"})
                    \cup (IF sig.hasArchitecture THEN {"anti"} ELSE {})
      IN  /\ sig.isFabric
          /\ \/ Cardinality(failed) <= 1
             \/ failed = {"subject", "anti"}

\* an image without subject focus and with architecture in it was accepted
C27_Witness ==
    /\ variant = "validator"
    /\ validationResult # None
    /\ validationResult.isClothing
    /\ ~imageFile.signals.hasDefinedSubject
    /\ imageFile.signals.hasArchitecture

\* C29: in OutfitAnalyzer a result is stored as analysisResult only when the
\* analyzeOutfit call that computed it was given the image that is selected
\* at that moment, so that a call in flight for an image the user has since
\* replaced never stores its result; and when an analyzeOutfit call settles,
\* isAnalyzing becomes false.
C29_ResultOfSelectedImage ==
    [][(pc \in {"done", "rejected", "failed"} /\ pc' = "idle")
          => /\ isAnalyzing' = FALSE
             /\ (pc = "done" /\ analysisResult' # None)
                   => /\ selectedImage # None
                      /\ imageFile = selectedImage.content]_vars

(***************************************************************************)
(* The model-backed service under overlapping calls.  A call gives way to  *)
(* the others where it awaits: in initialize on either pipeline(), and in  *)
(* analyzeClothing on the classifier.                                      *)
(***************************************************************************)
MaxCallers == 2

Callers == 1..MaxCallers

\* what the steps of a call leave alone, the service's two fields apart
callLocals ==
    <<variant, pc, imageFile, url, loadAttempts, validationResult, valPath,
      anaPath, returned, thrown, previous, uiVars, colorVars, passVars,
      contourVars, garmentVars, callVars>>

\* analyzeClothing is entered: with isInitialized set it goes on to the
\* classifier at once; else initialize() tests the flag again and awaits
\* pipeline() on WebGPU
AnalyzeClothingOverlap(c) ==
    /\ callers[c] \in {"idle", "done", "failed"}
    /\ callers' = [callers EXCEPT
                     ![c] = IF isInitialized THEN "classifying"
                            ELSE "webgpu"]
    /\ UNCHANGED <<callLocals, isInitialized, imageClassifier, constructed>>

\* the pipeline on WebGPU or on the CPU resolved: it is stored and the flag
\* is set
PipelineResolved(c) ==
    /\ callers[c] \in {"webgpu", "cpu"}
    /\ imageClassifier' = callers[c]
    /\ isInitialized' = TRUE
    /\ constructed' = Append(constructed, callers[c])
    /\ callers' = [callers EXCEPT ![c] = "initialized"]
    /\ UNCHANGED callLocals

\* the pipeline on WebGPU rejected: the catch block awaits pipeline() on the
\* CPU
WebgpuRejected(c) ==
    /\ callers[c] = "webgpu"
    /\ callers' = [callers EXCEPT ![c] = "cpu"]
    /\ UNCHANGED <<callLocals, isInitialized, imageClassifier, constructed>>

\* the pipeline on the CPU rejected: initialize throws, and so does
\* analyzeClothing, which awaits it outside its try block
CpuRejected(c) ==
    /\ callers[c] = "cpu"
    /\ callers' = [callers EXCEPT ![c] = "failed"]
    /\ UNCHANGED <<callLocals, isInitialized, imageClassifier, constructed>>

\* after await this.initialize(): this.imageClassifier(imageUrl)
ClassifyOverlap(c) ==
    /\ callers[c] = "initialized"
    /\ callers' = [callers EXCEPT ![c] = "classifying"]
    /\ UNCHANGED <<callLocals, isInitialized, imageClassifier, constructed>>

\* the classifier settled and the call returns a record
ClassifierSettled(c) ==
    /\ callers[c] = "classifying"
    /\ callers' = [callers EXCEPT ![c] = "done"]
    /\ UNCHANGED <<callLocals, isInitialized, imageClassifier, constructed>>

InitOverlap ==
    /\ variant = "model"
    /\ InitService
    /\ InitUI
    /\ IdleExcept("overlap")
    /\ callers = [c \in Callers |-> "idle"]
    /\ constructed = <<>>

NextOverlap ==
    \E c \in Callers :
       \/ AnalyzeClothingOverlap(c)
       \/ PipelineResolved(c)
       \/ WebgpuRejected(c)
       \/ CpuRejected(c)
       \/ ClassifyOverlap(c)
       \/ ClassifierSettled(c)

SpecOverlap == InitOverlap /\ [][NextOverlap]_vars

\* C30: in the model-backed service at most one initialization stores a
\* classifier, also when analyzeClothing is called again before the first
\* initialization has completed; a call applies the classifier only when
\* isInitialized is true; and isInitialized, once true, stays true.
C30_InitializedOnce ==
    [][/\ Len(constructed') <= 1
       /\ \A c \in Callers :
             (callers[c] # "classifying" /\ callers'[c] = "classifying")
                => isInitialized
       /\ isInitialized => isInitialized']_vars

(***************************************************************************)
(* Helper functions called on their own, each on arguments around its      *)
(* thresholds.  callArgs.fn names the function.                            *)
(***************************************************************************)

\* one region with the given texture complexity and edge density (in
\* thousandths) among calm ones
ConfidenceRegions ==
    {[i \in 1..NumRegions |->
        IF i = k THEN [Calm EXCEPT !.textureComplexity = t,
                                   !.edgeDensity = e]
        ELSE Calm] :
        k \in {1, NumRegions}, t \in {0, 20, 21}, e \in {0, 80, 81}}

ConfidenceInputs ==
    [fn : {"calculateConfidence"},
     regions : ConfidenceRegions,
     edges : [strength : {0, 50, 51}, contourCount : {2}],
     colors : {ColorList(n, top) : n \in {0, 1, 2}, top \in {30, 31}}]

CalculateConfidence ==
    /\ callArgs.fn = "calculateConfidence"
    /\ callResult = None
    /\ callResult' =
          [value |-> calculateConfidenceAdv(callArgs.regions, callArgs.edges,
                                            callArgs.colors)]
    /\ UNCHANGED <<svcVars, previous, uiVars, mlVars, colorVars, passVars,
                   contourVars, garmentVars, overlapVars, callArgs>>

\* C21: calculateConfidence of the advanced version returns 60 plus 15 for
\* edge strength > 50, 10 for at least two colours with the first above 30%,
\* 10 for a region with textureComplexity > 20 and 5 for a region with
\* edgeDensity > 0.08, capped at 95; so it lies between 60 and 95 and is 60
\* exactly when no bonus applies.
C21_ConfidenceBonuses ==
    (callResult # None /\ callArgs.fn = "calculateConfidence") =>
      LET strong == callArgs.edges.strength > 50
          twoColors == /\ Len(callArgs.colors) >= 2
                       /\ callArgs.colors[1].percentage > 30
          textured == \E i \in 1..NumRegions :
                         callArgs.regions[i].textureComplexity > 20
          dense == \E i \in 1..NumRegions :
                      callArgs.regions[i].edgeDensity > 80
          sum == 60 + (IF strong THEN 15 ELSE 0)
                    + (IF twoColors THEN 10 ELSE 0)
                    + (IF textured THEN 10 ELSE 0)
                    + (IF dense THEN 5 ELSE 0)
      IN  /\ callResult.value = (IF sum > 95 THEN 95 ELSE sum)
          /\ callResult.value >= 60
          /\ callResult.value <= 95
          /\ callResult.value = 60
                <=> ~(strong \/ twoColors \/ textured \/ dense)

\* all four bonuses apply and the sum of 100 was capped
C21_Witness ==
    /\ callResult # None
    /\ callArgs.fn = "calculateConfidence"
    /\ callArgs.edges.strength > 50
    /\ Len(callArgs.colors) = 2
    /\ callArgs.colors[1].percentage = 31
    /\ callArgs.regions[NumRegions].textureComplexity = 21
    /\ callArgs.regions[NumRegions].edgeDensity = 81
    /\ callResult.value = 95

\* (pattern >> i) & 1
Bit(pattern, i) == (pattern \div (2 ^ i)) % 2

\* counts the transitions around the ring, bit 7 against bit 0 included
calculatePatternComplexityRing(pattern) ==
    Cardinality({i \in 0..7 : Bit(pattern, i) # Bit(pattern, (i + 1) % 8)})

\* the loop of calculatePatternComplexity: prev starts as bit 0, i runs 1..7
calculatePatternComplexity(pattern) ==
    LET Loop[i \in 1..8] ==
            \* <<complexity, prev>> when the loop stands before iteration i
            IF i = 1 THEN <<0, Bit(pattern, 0)>>
            ELSE LET before == Loop[i - 1]
                     current == Bit(pattern, i - 1)
                 IN  <<IF current # before[2] THEN before[1] + 1
                       ELSE before[1],
                       current>>
    IN  Loop[8][1]

PatternInputs == [fn : {"calculatePatternComplexity"}, pattern : 0..255]

CalculatePatternComplexity ==
    /\ callArgs.fn = "calculatePatternComplexity"
    /\ callResult = None
    /\ callResult' = [value |-> calculatePatternComplexity(callArgs.pattern)]
    /\ UNCHANGED <<svcVars, previous, uiVars, mlVars, colorVars, passVars,
                   contourVars, garmentVars, overlapVars, callArgs>>

\* C23: calculatePatternComplexity(p) for p in 0..255 is the number of
\* positions i in 1..7 whose bit differs from bit i - 1, bit 7 not being
\* compared with bit 0; it lies in 0..7 and is 0 exactly for 0 and 255.
C23_PatternComplexityCountsTransitions ==
    (callResult # None /\ callArgs.fn = "calculatePatternComplexity") =>
      LET p == callArgs.pattern
      IN  /\ callResult.value =
                Cardinality({i \in 1..7 :
                    (p \div 2 ^ i) % 2 # (p \div 2 ^ (i - 1)) % 2})
          /\ callResult.value \in 0..7
          /\ callResult.value = 0 <=> p \in {0, 255}

\* 128: bits 7 and 0 differ and are not compared, the one transition is
\* between bits 6 and 7
C23_Witness ==
    /\ callResult # None
    /\ callArgs.fn = "calculatePatternComplexity"
    /\ callArgs.pattern = 128
    /\ callResult.value = 1

\* the pixels performAdvancedColorAnalysis samples, i = 0, 16, 32, ... being
\* the buffer index of every fourth pixel, as <<x, y>>
ColorSamples(image) ==
    {<<n % image.width, n \div image.width>> :
        n \in {m \in 0..(image.width * image.height - 1) : m % 4 = 0}}

\* brightness < 25 || brightness > 230
IsBackground(image, p) ==
    \/ Intensity3(image, p[1], p[2]) < 3 * 25
    \/ Intensity3(image, p[1], p[2]) > 3 * 230

\* percentages as fractions: count / (totalPixels / 4) * 100
performAdvancedColorAnalysis(image) ==
    LET S == {p \in ColorSamples(image) : ~IsBackground(image, p)}
        NameOf(p) ==
            LET c == PixelAt(image, p[1], p[2])
            IN  getAdvancedColorName(c[1], c[2], c[3])
        Count(n) == Cardinality({p \in S : NameOf(p) = n})
        totalPixels == image.width * image.height
        \* .filter(color => color.percentage > 2)
        names == {n \in {NameOf(p) : p \in S} :
                     400 * Count(n) > 2 * totalPixels}
        \* keys of colorCounts are in the order of their first sample
        First(n) ==
            CHOOSE r \in 0..totalPixels :
                /\ \E p \in S : r = p[2] * image.width + p[1] /\ NameOf(p) = n
                /\ \A p \in S : NameOf(p) = n
                                  => r <= p[2] * image.width + p[1]
        Before(a, b) ==
            \/ Count(a) > Count(b)
            \/ Count(a) = Count(b) /\ First(a) < First(b)
    IN  [k \in 1..Cardinality(names) |->
            LET n == CHOOSE n \in names :
                        Cardinality({m \in names : Before(m, n)}) = k - 1
            IN  [name |-> n,
                 percentage |-> [num |-> 400 * Count(n),
                                 den |-> totalPixels]]]

ColorAnalysisInputs ==
    [fn : {"performAdvancedColorAnalysis"}, image : PassImages]

PerformAdvancedColorAnalysisCall ==
    /\ callArgs.fn = "performAdvancedColorAnalysis"
    /\ callResult = None
    /\ callResult' = [value |-> performAdvancedColorAnalysis(callArgs.image)]
    /\ UNCHANGED <<svcVars, previous, uiVars, mlVars, colorVars, passVars,
                   contourVars, garmentVars, overlapVars, callArgs>>

\* C24: performAdvancedColorAnalysis gives every colour its share of the
\* sampled pixels that are not background (brightness in 25..230), keeps
\* the colours whose share is above 2, in descending order, and the shares
\* kept sum to at most 100.
C24_SharesOfNonBackground ==
    (callResult # None /\ callArgs.fn = "performAdvancedColorAnalysis") =>
      LET image == callArgs.image
          colors == callResult.value
          kept == {p \in ColorSamples(image) :
                      LET sum == Intensity3(image, p[1], p[2])
                      IN  sum >= 75 /\ sum <= 690}
          Named(n) ==
              {p \in kept :
                  LET c == PixelAt(image, p[1], p[2])
                  IN  getAdvancedColorName(c[1], c[2], c[3]) = n}
      IN  /\ \A k \in 1..Len(colors) :
                /\ colors[k].percentage.num * Cardinality(kept)
                     = 100 * Cardinality(Named(colors[k].name))
                         * colors[k].percentage.den
                /\ colors[k].percentage.num > 2 * colors[k].percentage.den
          /\ \A k \in 1..(Len(colors) - 1) :
                colors[k].percentage.num * colors[k + 1].percentage.den
                  >= colors[k + 1].percentage.num * colors[k].percentage.den
          /\ SumFn([k \in 1..Len(colors) |-> colors[k].percentage.num])
                <= 100 * image.width * image.height

\* ---------------------------------------------------------------------
\* performAdvancedAnalysis on a pixel buffer: the measurements of the
\* passes, handed to the feature extraction of the advanced version.
\* ---------------------------------------------------------------------

\* analyzeTexture: the local binary pattern around the centre p, neighbours
\* taken row by row, and the summed complexity of all centres
LocalPattern(image, p) ==
    SumFn([k \in 0..7 |->
        LET n == IF k < 4 THEN k ELSE k + 1
        IN  IF Intensity3(image, p[1] + (n % 3) - 1, p[2] + (n \div 3) - 1)
                 > Intensity3(image, p[1], p[2])
            THEN 2 ^ k ELSE 0])

TextureSum(image) ==
    SumFn([p \in TextureCentres(image) |->
              calculatePatternComplexity(LocalPattern(image, p))])

\* the edge-map pixels above 40, whose mean magnitude is edges.strength
EdgePixels(image) ==
    {p \in Interior(image) :
        Exceeds(calculateSobelEdge(image, p[1], p[2]), 40)}

\* the value of a fraction in the given unit (1 or 1000 to the whole)
InUnits(f, unit) == (unit * f.num) \div f.den

\* The pictures whose measurements are whole numbers in the units of the
\* feature extraction above: every region statistic and colour percentage;
\* the edge magnitudes above 40 all the same whole number, if there are any;
\* and at most 10 pixels above 40, so that findContours keeps no contour.
ExactlyMeasured(image) ==
    /\ \A i \in 1..NumRegions :
          \A stats \in {analyzeDetailedRegion(image, i)} :
              /\ stats.averageBrightness.num % stats.averageBrightness.den = 0
              /\ (1000 * stats.edgeDensity.num) % stats.edgeDensity.den = 0
              /\ (1000 * stats.contours.num) % stats.contours.den = 0
              /\ stats.colorVariance.num % stats.colorVariance.den = 0
              /\ stats.textureComplexity.num % stats.textureComplexity.den = 0
    /\ \A colors \in {performAdvancedColorAnalysis(image)} :
          \A k \in DOMAIN colors :
             colors[k].percentage.num % colors[k].percentage.den = 0
    /\ \A edgePixels \in {EdgePixels(image)} :
          /\ Cardinality(edgePixels) <= 10
          /\ \/ edgePixels = {}
             \/ \E m \in 41..1443 :
                   \A p \in edgePixels :
                      calculateSobelEdge(image, p[1], p[2]) = 9 * m * m

\* each measurement is taken once, as the code takes it
MeasuredRegion(image, i) ==
    CHOOSE region \in
        {[averageBrightness |-> InUnits(stats.averageBrightness, 1),
          edgeDensity |-> InUnits(stats.edgeDensity, 1000),
          contours |-> InUnits(stats.contours, 1000),
          colorVariance |-> InUnits(stats.colorVariance, 1),
          dominantColors |-> Len(stats.dominantColors),
          textureComplexity |-> InUnits(stats.textureComplexity, 1)] :
            stats \in {analyzeDetailedRegion(image, i)}} : TRUE

MeasuredColors(image) ==
    CHOOSE list \in
        {[k \in DOMAIN colors |->
             [name |-> colors[k].name,
              percentage |-> InUnits(colors[k].percentage, 1)]] :
            colors \in {performAdvancedColorAnalysis(image)}} : TRUE

MeasuredStrength(image) ==
    CHOOSE strength \in
        {IF edgePixels = {} THEN 0
         ELSE CHOOSE m \in 41..1443 :
                 \A p \in edgePixels :
                    calculateSobelEdge(image, p[1], p[2]) = 9 * m * m :
            edgePixels \in {EdgePixels(image)}} : TRUE

MeasuredImage(image) ==
    Decoded(NoSignals,
            [width |-> image.width, height |-> image.height],
            TextureSum(image),
            MeasuredColors(image),
            MeasuredStrength(image),
            0,
            [i \in 1..NumRegions |-> MeasuredRegion(image, i)])

\* the pictures performAdvancedAnalysis is called on have at most this many
\* pixels
MaxPixels == 9

AnalysisInputs ==
    [fn : {"performAdvancedAnalysis"},
     image : {image \in PassImages :
                 /\ image.width * image.height <= MaxPixels
                 /\ ExactlyMeasured(image)}]

\* the successful path of performAdvancedAnalysis
PerformAdvancedAnalysisCall ==
    /\ callArgs.fn = "performAdvancedAnalysis"
    /\ callResult = None
    /\ \E measured \in {MeasuredImage(callArgs.image)} :
          callResult' = [value |-> AnalysisRecordAdv(measured),
                         texture |-> analyzeTexture(measured)]
    /\ UNCHANGED <<svcVars, previous, uiVars, mlVars, colorVars, passVars,
                   contourVars, garmentVars, overlapVars, callArgs>>

\* C22: for a picture whose pixels are all (0,0,0) the successful result has
\* whole-image texture complexity 0, fit 'loose', confidence 60 and 'black'
\* among its colours.
C22_BlackImageResult ==
    (/\ callResult # None
     /\ callArgs.fn = "performAdvancedAnalysis"
     /\ callArgs.image.picture = "uniform"
     /\ callArgs.image.shades[1] = <<0, 0, 0>>) =>
        /\ callResult.texture.complexity = 0
        /\ callResult.value.fit = "loose"
        /\ callResult.value.confidence = 60
        /\ \E k \in 1..Len(callResult.value.colors) :
              callResult.value.colors[k] = "black"

\* top regions on both sides of every threshold of detectAdvancedNeckline
NecklineInputs ==
    [fn : {"detectAdvancedNeckline"},
     topRegion : {[Calm EXCEPT !.contours = c, !.edgeDensity = e,
                               !.averageBrightness = b,
                               !.dominantColors = n] :
                     c \in {80, 81, 150, 151},
                     e \in {49, 50, 80, 81, 120, 121},
                     b \in {150, 151, 180, 181},
                     n \in {2, 3}},
     garmentType : {"top", "bottom", "dress", "full_outfit"}]

DetectAdvancedNeckline ==
    /\ callArgs.fn = "detectAdvancedNeckline"
    /\ callResult = None
    /\ callResult' =
          [value |-> detectAdvancedNeckline(
                        callArgs.topRegion,
                        [strength |-> 0, contourCount |-> 0],
                        callArgs.garmentType)]
    /\ UNCHANGED <<svcVars, previous, uiVars, mlVars, colorVars, passVars,
                   contourVars, garmentVars, overlapVars, callArgs>>

\* C25: detectAdvancedNeckline answers 'not applicable' for a bottom and
\* otherwise by the first of its tests that holds, in their order, 'crew
\* neck' when none does; 'strapless' is never the answer when the top
\* region's edgeDensity is 0.05 or more.
C25_NecklineFirstMatch ==
    (callResult # None /\ callArgs.fn = "detectAdvancedNeckline") =>
      LET top == callArgs.topRegion
          tests == <<callArgs.garmentType = "bottom",
                     top.contours > 150,
                     top.edgeDensity > 120 /\ top.averageBrightness > 150,
                     top.edgeDensity < 50,
                     top.dominantColors > 2 /\ top.averageBrightness > 180,
                     top.edgeDensity > 80 /\ top.contours > 80,
                     TRUE>>
          answers == <<"not applicable", "v-neck", "scoop neck", "strapless",
                       "boat neck", "square neck", "crew neck">>
          first == CHOOSE k \in 1..7 :
                      tests[k] /\ \A j \in 1..(k - 1) : ~tests[j]
      IN  /\ callResult.value = answers[first]
          /\ top.edgeDensity >= 50 => callResult.value # "strapless"

\* a top region with edgeDensity exactly 0.05 went past the strapless test
C25_Witness ==
    /\ callResult # None
    /\ callArgs.fn = "detectAdvancedNeckline"
    /\ callArgs.topRegion.edgeDensity = 50
    /\ callResult.value = "boat neck"

\* analyzeSubjectFocus, the scan of the centre region.  x runs from
\* width * 0.25 and y from height * 0.25 in steps of 3, without rounding, up
\* to three quarters; they are kept times 4, which makes
\* index = (y * width + x) * 4 the whole number y4 * width + x4.
CenterScanStarts(width, height) ==
    {<<x4, y4>> \in (width..(3 * width - 1)) \X (height..(3 * height - 1)) :
        (x4 - width) % 12 = 0 /\ (y4 - height) % 12 = 0}

\* the index of the red channel of every read: the sampled pixel's, dx = dy
\* = 0 below, and its neighbours'
CenterScanIndexes(width, height) ==
    {(p[2] + 4 * d[2]) * width + p[1] + 4 * d[1] :
        p \in CenterScanStarts(width, height), d \in (-1..1) \X (-1..1)}

SubjectFocusInputs ==
    [fn : {"analyzeSubjectFocus"},
     width : 1..MaxSide \cup {8}, height : 1..MaxSide \cup {7}]

AnalyzeSubjectFocusCenter ==
    /\ callArgs.fn = "analyzeSubjectFocus"
    /\ callResult = None
    /\ callResult' =
          [indexes |-> CenterScanIndexes(callArgs.width, callArgs.height)]
    /\ UNCHANGED <<svcVars, previous, uiVars, mlVars, colorVars, passVars,
                   contourVars, garmentVars, overlapVars, callArgs>>

\* C28: every read of the centre-region scan of analyzeSubjectFocus, of the
\* sampled pixel and of its 3x3 neighbours, is at an index inside the
\* buffer that is a multiple of 4, so that index, index + 1 and index + 2
\* are the red, green and blue of one pixel of the image.
C28_CenterScanReadsPixels ==
    (callResult # None /\ callArgs.fn = "analyzeSubjectFocus") =>
      \A index \in callResult.indexes :
         /\ index >= 0
         /\ index + 2 <= callArgs.width * callArgs.height * 4 - 1
         /\ index % 4 = 0

CallInputs ==
    ConfidenceInputs \cup PatternInputs \cup ColorAnalysisInputs
    \cup AnalysisInputs \cup NecklineInputs \cup SubjectFocusInputs

InitCalls ==
    /\ variant = "advanced"
    /\ InitService
    /\ InitUI
    /\ IdleExcept("call")
    /\ callArgs \in CallInputs
    /\ callResult = None

NextCalls ==
    \/ CalculateConfidence
    \/ CalculatePatternComplexity
    \/ PerformAdvancedColorAnalysisCall
    \/ PerformAdvancedAnalysisCall
    \/ DetectAdvancedNeckline
    \/ AnalyzeSubjectFocusCenter

SpecCalls == InitCalls /\ [][NextCalls]_vars

====
